---- MODULE Spec2Model ----
(***************************************************************************)
(* State-machine model of featherpg's SQL front end: the byte-cursor       *)
(* lexer (src/src/lexer.rs), the symbol interner (src/src/symbols.rs),     *)
(* the diagnostics accumulator (src/src/diag.rs) and the recursive-descent *)
(* parser (src/src/parser.rs).                                             *)
(*                                                                         *)
(* Conventions.  The source buffer is a sequence of byte values 0..255     *)
(* holding valid UTF-8.  A byte offset p of the Rust code is the offset p  *)
(* here; the byte at offset p is s[p + 1].  A range is the half-open       *)
(* interval [start, end) of byte offsets.  An arbitrary-precision integer  *)
(* (num_bigint::BigInt) is its canonical sequence of decimal digits, so    *)
(* no value is cut to a machine width.                                     *)
(***************************************************************************)
EXTENDS Integers, Sequences, FiniteSets, TLC

VARIABLES
    src,      \* Lexer.src: the bytes of the query text
    pos,      \* Lexer.pos: the byte cursor
    diags,    \* CodeDiagnostics.diagnostics, in insertion order
    tokens,   \* every token next_token has returned so far, in call order
    status,   \* "run", or "panic" once a call has aborted
    entry,    \* which entry point drives the run
    outcome,  \* how the parser entry point ended: "none", "ok", "err", "abort"
    ast,      \* the statements the parser entry point returned
    added,    \* every diagnostic handed to CodeDiagnostics::add, in call order
    checked,  \* what check_errors or CodeError::from returned, if called
    rendered, \* the lines Display wrote for the CodeError, if called
    symbols,  \* two Symbol values and what ==, cmp and hash gave for them
    par,      \* the parses that run side by side, one record per thread
    session,  \* one accepted connection: the bytes the client sends, how far
              \* the server has read, and what it has read and written
    wire      \* one ServerMessage and what write_to wrote for it

vars == <<src, pos, diags, tokens, status, entry, outcome, ast,
          added, checked, rendered, symbols, par, session, wire>>

\* ------------------------------------------------------------------ bounds

\* Longest input, in characters, drawn from a lexer alphabet.
MaxChars == 4

\* How many times next_token is called again after it first returned Eof.
MaxEofCalls == 2

\* Longest parser input, in lexeme pieces.
MaxPieces == 4

\* Calls of CodeDiagnostics::add the caller makes in the accumulator runs.
MaxDiags == 3

\* Characters of the text that is lexed in the accumulator runs.
MaxLexed == 2

\* Most frames a client sends before it closes its end.
MaxFrames == 3

\* Most columns of a RowDescription and most fields of a DataRow.
MaxColumns == 2
MaxFields == 2

\* ------------------------------------------------------------- byte classes

\* byte_pattern!(digit): b'0'..=b'9'
IsDigit(b) == b \in 48..57

\* byte_pattern!(ident_start): A-Z | a-z | '_' | 0x80..=0xFF
IsIdentStart(b) == b \in 65..90 \/ b \in 97..122 \/ b = 95 \/ b \in 128..255

\* byte_pattern!(ident_continue): ident_start | digit | '$'
IsIdentContinue(b) == IsIdentStart(b) \/ IsDigit(b) \/ b = 36

\* byte_pattern!(symbol_base): + - * / < > =
IsSymbolBase(b) == b \in {43, 45, 42, 47, 60, 62, 61}

\* byte_pattern!(symbol_extra): ~ ! @ # % ^ & | ` ?
IsSymbolExtra(b) == b \in {126, 33, 64, 35, 37, 94, 38, 124, 96, 63}

\* byte_pattern!(symbol)
IsSymbol(b) == IsSymbolBase(b) \/ IsSymbolExtra(b)

\* ------------------------------------------------------------ str primitives

\* &s[a..b]: the bytes at offsets a .. b-1.
Slice(s, a, b) == SubSeq(s, a + 1, b)

\* The pieces of a sequence of byte strings, one after the other.
RECURSIVE Flatten(_)
Flatten(ss) == IF ss = <<>> THEN <<>> ELSE Head(ss) \o Flatten(Tail(ss))

\* str::is_char_boundary: offset p starts a UTF-8 sequence or ends the text.
IsCharBoundary(s, p) ==
    \/ p = 0
    \/ p = Len(s)
    \/ (p < Len(s) /\ s[p + 1] \notin 128..191)

\* s[p..].chars().next(): the code point whose UTF-8 sequence starts at p.
FirstChar(s, p) ==
    LET b0 == s[p + 1] IN
    IF b0 < 128 THEN b0
    ELSE IF b0 < 224 THEN (b0 - 192) * 64 + (s[p + 2] - 128)
    ELSE IF b0 < 240
         THEN (b0 - 224) * 4096 + (s[p + 2] - 128) * 64 + (s[p + 3] - 128)
    ELSE (b0 - 240) * 262144 + (s[p + 2] - 128) * 4096
         + (s[p + 3] - 128) * 64 + (s[p + 4] - 128)

\* char::is_whitespace: the code points with the White_Space property.
IsWhitespace(c) ==
    \/ c \in 9..13
    \/ c \in {32, 133, 160, 5760, 8232, 8233, 8239, 8287, 12288}
    \/ c \in 8192..8202

\* u8::to_ascii_lowercase
ByteToAsciiLower(b) == IF b \in 65..90 THEN b + 32 ELSE b

\* str::to_lowercase in place of to_ascii_lowercase: it also lowercases the
\* two-byte letters U+00C0..U+00DE (0xC3 0x80..0x9E).
ToLowercaseUnicode(s) ==
    [i \in 1..Len(s) |->
        IF s[i] \in 65..90 THEN s[i] + 32
        ELSE IF i > 1 /\ s[i - 1] = 195 /\ s[i] \in 128..158 THEN s[i] + 32
        ELSE s[i]]

\* str::to_ascii_lowercase: only A-Z change, every other byte is copied.
ToAsciiLowercase(s) == [i \in 1..Len(s) |-> ByteToAsciiLower(s[i])]

\* ------------------------------------------------------------------ symbols

\* The spellings of the keyword table used by the inputs of this model
\* (an excerpt of build_keywords!, with the ids of the source).
S_empty  == <<>>
S_as     == <<97, 115>>
S_from   == <<102, 114, 111, 109>>
S_select == <<115, 101, 108, 101, 99, 116>>

\* const ID_MAX: the length of the KEYWORDS array
ID_MAX == 501

KeywordIds == {0, 19, 159, 381}

\* static KEYWORDS: id -> spelling
KEYWORDS ==
    [id \in KeywordIds |->
        CASE id = 0   -> S_empty
          [] id = 19  -> S_as
          [] id = 159 -> S_from
          [] id = 381 -> S_select]

\* static KEYWORD_MAP: spelling -> id
KeywordMapHas(s) == \E id \in KeywordIds : KEYWORDS[id] = s
KeywordMapGet(s) == CHOOSE id \in KeywordIds : KEYWORDS[id] = s

\* SymbolCase::Keyword(id) and SymbolCase::Custom(text)
SymKeyword(id) == [case |-> "Keyword", id |-> id, s |-> <<>>]
SymCustom(s)   == [case |-> "Custom", id |-> 0, s |-> s]
NoSymbol       == [case |-> "None", id |-> 0, s |-> <<>>]

\* Symbol::KEYWORD_select
KEYWORD_select == SymKeyword(381)

\* An intern that never consults the keyword table.
SymbolFromCustomOnly(s) == SymCustom(s)

\* impl From<String> for Symbol
SymbolFrom(s) ==
    IF KeywordMapHas(s) THEN SymKeyword(KeywordMapGet(s)) ELSE SymCustom(s)

\* impl Deref for Symbol
SymbolDeref(sym) ==
    IF sym.case = "Keyword" THEN KEYWORDS[sym.id] ELSE sym.s

\* Symbol::KEYWORD__EMPTY_STRING, Symbol::KEYWORD_as, Symbol::KEYWORD_from
KEYWORD__EMPTY_STRING == SymKeyword(0)
KEYWORD_as   == SymKeyword(19)
KEYWORD_from == SymKeyword(159)

\* A default that owns an empty text instead of naming the keyword.
SymbolDefaultCustom == SymCustom(S_empty)

\* impl Default for Symbol
SymbolDefault == KEYWORD__EMPTY_STRING

\* Symbol::trivially_equal
TriviallyEqual(a, b) ==
    a.case = "Keyword" /\ b.case = "Keyword" /\ a.id = b.id

\* #[derive(PartialEq)] on Symbol and SymbolCase: the same variant with the
\* same payload.
SymbolEq(a, b) ==
    /\ a.case = b.case
    /\ IF a.case = "Keyword" THEN a.id = b.id ELSE a.s = b.s

\* <str as Ord>::cmp: the lexicographic order of the bytes.
RECURSIVE StrCmp(_, _)
StrCmp(x, y) ==
    IF x = <<>> /\ y = <<>> THEN "Equal"
    ELSE IF x = <<>> THEN "Less"
    ELSE IF y = <<>> THEN "Greater"
    ELSE IF x[1] < y[1] THEN "Less"
    ELSE IF x[1] > y[1] THEN "Greater"
    ELSE StrCmp(Tail(x), Tail(y))

\* impl Ord for Symbol
SymbolCmp(a, b) ==
    IF TriviallyEqual(a, b) THEN "Equal"
    ELSE StrCmp(SymbolDeref(a), SymbolDeref(b))

\* <str as Hash>::hash: what is written to the hasher, the bytes of the
\* text and the terminator 0xFF.
StrHash(x) == x \o <<255>>

\* impl Hash for Symbol
SymbolHash(a) == StrHash(SymbolDeref(a))

\* No Symbol is held.
NoSymbols ==
    [a |-> NoSymbol, b |-> NoSymbol, slot |-> "a", from |-> <<>>,
     made |-> "none",
     compared |-> FALSE, eq |-> FALSE, cmp |-> "none", hash_eq |-> FALSE]

\* No connection is open, and no message is being written.
NoSession == [phase |-> "none"]
NoWire == [phase |-> "none"]

\* No parse runs on a thread.  keywords is the static keyword table, the
\* one thing the threads share; trace lists the threads in the order of
\* their steps.
NoThreads == [threads |-> <<>>, keywords |-> KEYWORDS, trace |-> <<>>]

\* ------------------------------------------------------ tokens, diagnostics

\* CodeRange { start, end }
Range(a, b) == [start |-> a, end |-> b]

\* TokenKind: the tag and, for the variants that carry one, the payload.
Kind(tag) ==
    [tag |-> tag, name |-> NoSymbol, quoted |-> FALSE,
     value |-> <<>>, text |-> <<>>]
KIdentifier(sym, q) == [Kind("Identifier") EXCEPT !.name = sym, !.quoted = q]
KInteger(v)         == [Kind("Integer") EXCEPT !.value = v]
KUserOp(t)          == [Kind("UserOp") EXCEPT !.text = t]

\* The variants of enum TokenKind.
TokenTags ==
    {"Eof", "Identifier", "Integer", "LParen", "RParen", "LBracket",
     "RBracket", "LBrace", "RBrace", "Dot", "DotDot", "Comma", "Colon",
     "ColonEq", "ColonColon", "Semicolon", "Caret", "Asterisk", "Slash",
     "Percent", "Plus", "Minus", "Eq", "FatArrow", "Neq", "Lt", "Gt", "Le",
     "Ge", "UserOp", "Unknown"}

\* Token { kind, range }
Token(kind, range) == [kind |-> kind, range |-> range]

\* CodeDiagnostic::UnknownToken { range } and ::UnexpectedEof { range }
UnknownToken(range)  == [variant |-> "UnknownToken", range |-> range]
UnexpectedEof(range) == [variant |-> "UnexpectedEof", range |-> range]

\* An add that puts the new diagnostic in front of the earlier ones.
DiagPrepend(d, diagnostic) == <<diagnostic>> \o d

\* CodeDiagnostics::add
DiagAdd(d, diagnostic) == Append(d, diagnostic)

\* CodeDiagnostics::has_errors
HasErrors(d) == d # <<>>

\* impl From<CodeDiagnostics> for CodeError: the vector moves into the error.
CodeErrorFrom(d) == [tag |-> "Err", diagnostics |-> d]

\* A check_errors that hands the accumulator back whatever it holds.
CheckErrorsAlwaysOk(d) == [tag |-> "Ok", diagnostics |-> d]

\* CodeDiagnostics::check_errors
CheckErrors(d) ==
    IF HasErrors(d) THEN CodeErrorFrom(d) ELSE [tag |-> "Ok", diagnostics |-> d]

\* Neither check_errors nor CodeError::from has been called.
NotChecked == [tag |-> "none", by |-> "none", diagnostics |-> <<>>]

\* #[error("...")] of enum CodeDiagnostic: the Display text of a diagnostic.
Message(diagnostic) ==
    IF diagnostic.variant = "UnknownToken" THEN "unknown token"
    ELSE "unexpected end of input"

\* The messages of the diagnostics, one line each.
Messages(e) == [k \in 1..Len(e) |-> Message(e[k])]

\* A Display that writes the count header for a single diagnostic too.
DisplayAlwaysHeader(e) ==
    IF e = <<>> THEN <<"No errors">>
    ELSE <<ToString(Len(e)) \o " errors found:">> \o Messages(e)

\* impl fmt::Display for CodeError: the lines written, one per writeln!.
Display(e) ==
    IF e = <<>> THEN <<"No errors">>
    ELSE IF Len(e) = 1 THEN <<Message(e[1])>>
    ELSE <<ToString(Len(e)) \o " errors found:">> \o Messages(e)

\* Display has not been called.
NotRendered == [done |-> FALSE, lines |-> <<>>]

\* -------------------------------------------------------------------- lexer

\* What one call of next_token yields: the token, the cursor and the
\* diagnostics after the call, or panic = TRUE when the call aborted.
Returned(tok, p, d) == [panic |-> FALSE, tok |-> tok, pos |-> p, diags |-> d]
Aborted(p, d) ==
    [panic |-> TRUE, tok |-> Token(Kind("Unknown"), Range(p, p)),
     pos |-> p, diags |-> d]

\* Lexer::skip_whitespace.  The loop tests the character that starts at the
\* cursor and then moves the cursor by ONE byte; slicing src at a cursor
\* that is inside a multi-byte character aborts.
RECURSIVE SkipWhitespace(_, _)
SkipWhitespace(s, p) ==
    IF p >= Len(s) THEN [pos |-> p, panic |-> FALSE]
    ELSE IF ~IsCharBoundary(s, p) THEN [pos |-> p, panic |-> TRUE]
    ELSE IF IsWhitespace(FirstChar(s, p)) THEN SkipWhitespace(s, p + 1)
    ELSE [pos |-> p, panic |-> FALSE]

\* The scan stopping at the first byte that is neither a digit nor an
\* underscore.
RECURSIVE ScanDecimal(_, _)
ScanDecimal(s, p) ==
    IF p < Len(s) /\ (IsDigit(s[p + 1]) \/ s[p + 1] = 95)
    THEN ScanDecimal(s, p + 1)
    ELSE p

\* The while loop of next_identifier_token and next_numeric_token: the
\* first offset at or after p whose byte is not an ident_continue byte.
RECURSIVE ScanIdentContinue(_, _)
ScanIdentContinue(s, p) ==
    IF p < Len(s) /\ IsIdentContinue(s[p + 1])
    THEN ScanIdentContinue(s, p + 1)
    ELSE p

\* Lexer::next_identifier_token
NextIdentifierToken(s, start, d) ==
    LET p == ScanIdentContinue(s, start)
    IN  IF ~(IsCharBoundary(s, start) /\ IsCharBoundary(s, p))
        THEN Aborted(p, d)
        ELSE LET identifier == SymbolFrom(ToAsciiLowercase(Slice(s, start, p)))
             IN  Returned(Token(KIdentifier(identifier, FALSE),
                                Range(start, p)), p, d)

\* The digit test without the underscore separator.
IsDigitsOnly(s) == \A i \in 1..Len(s) : IsDigit(s[i])

\* Lexer::is_decimal_integer
IsDecimalInteger(s) == \A i \in 1..Len(s) : IsDigit(s[i]) \/ s[i] = 95

\* Lexer::remove_underscores
RemoveUnderscores(s) == SelectSeq(s, LAMBDA b : b # 95)

\* str::parse::<BigInt> on ASCII digits: the value, as its canonical digits
\* (no leading zero; zero is <<0>>).
RECURSIVE StripLeadingZeros(_)
StripLeadingZeros(ds) ==
    IF Len(ds) > 1 /\ ds[1] = 0 THEN StripLeadingZeros(Tail(ds)) ELSE ds
ParseBigInt(s) == StripLeadingZeros([i \in 1..Len(s) |-> s[i] - 48])

\* next_numeric_token without the diags.add of its else branch.
NextNumericTokenUnreported(s, start, d) ==
    LET p == ScanIdentContinue(s, start)
        t == Slice(s, start, p)
    IN  IF ~(IsCharBoundary(s, start) /\ IsCharBoundary(s, p))
        THEN Aborted(p, d)
        ELSE IF IsDecimalInteger(t)
        THEN Returned(Token(KInteger(ParseBigInt(RemoveUnderscores(t))),
                            Range(start, p)), p, d)
        ELSE Returned(Token(Kind("Unknown"), Range(start, p)), p, d)

\* Lexer::next_numeric_token
NextNumericToken(s, start, d) ==
    LET p == ScanIdentContinue(s, start)
        t == Slice(s, start, p)
    IN  IF ~(IsCharBoundary(s, start) /\ IsCharBoundary(s, p))
        THEN Aborted(p, d)
        ELSE IF IsDecimalInteger(t)
        THEN Returned(Token(KInteger(ParseBigInt(RemoveUnderscores(t))),
                            Range(start, p)), p, d)
        ELSE Returned(Token(Kind("Unknown"), Range(start, p)), p,
                      DiagAdd(d, UnknownToken(Range(start, p))))

\* The comment markers with the C-style one left out: only --
CommentMarkersDashOnly == {<<45, 45>>}

\* The two comment markers, "--" and "/*".
CommentMarkers == {<<45, 45>>, <<47, 42>>}

\* The operator loop without the comment-marker test: plain greedy extension.
RECURSIVE ExtendOperatorNoBackOff(_, _)
ExtendOperatorNoBackOff(s, p) ==
    IF p < Len(s) /\ IsSymbol(s[p + 1])
    THEN ExtendOperatorNoBackOff(s, p + 1)
    ELSE p

\* The while loop of next_operator_token, entered with the cursor at p:
\* take one more operator byte, and when the last two bytes taken are a
\* comment marker go back two bytes and stop.
RECURSIVE ExtendOperator(_, _)
ExtendOperator(s, p) ==
    IF p < Len(s) /\ IsSymbol(s[p + 1])
    THEN IF Slice(s, p - 1, p + 1) \in CommentMarkers
         THEN p - 1
         ELSE ExtendOperator(s, p + 1)
    ELSE p

\* The trailing-sign test without its base-symbols-only condition.
TrimsTrailingSignAnySymbol(sym) ==
    /\ Len(sym) > 1
    /\ sym[Len(sym)] \in {43, 45}

\* The test of next_operator_token for giving back a trailing + or -.
TrimsTrailingSign(sym) ==
    /\ Len(sym) > 1
    /\ sym[Len(sym)] \in {43, 45}
    /\ \A i \in 1..Len(sym) : IsSymbolBase(sym[i])

\* The match on the final text without the de-facto spelling != of
\* not-equal.
OperatorKindStandardOnly(sym) ==
    CASE sym = <<94>>     -> Kind("Caret")
      [] sym = <<42>>     -> Kind("Asterisk")
      [] sym = <<47>>     -> Kind("Slash")
      [] sym = <<37>>     -> Kind("Percent")
      [] sym = <<43>>     -> Kind("Plus")
      [] sym = <<45>>     -> Kind("Minus")
      [] sym = <<61>>     -> Kind("Eq")
      [] sym = <<61, 62>> -> Kind("FatArrow")
      [] sym = <<60, 62>> -> Kind("Neq")
      [] sym = <<60>>     -> Kind("Lt")
      [] sym = <<62>>     -> Kind("Gt")
      [] sym = <<60, 61>> -> Kind("Le")
      [] sym = <<62, 61>> -> Kind("Ge")
      [] OTHER            -> KUserOp(sym)

\* The match of next_operator_token on the final text.
OperatorKind(sym) ==
    CASE sym = <<94>>     -> Kind("Caret")
      [] sym = <<42>>     -> Kind("Asterisk")
      [] sym = <<47>>     -> Kind("Slash")
      [] sym = <<37>>     -> Kind("Percent")
      [] sym = <<43>>     -> Kind("Plus")
      [] sym = <<45>>     -> Kind("Minus")
      [] sym = <<61>>     -> Kind("Eq")
      [] sym = <<61, 62>> -> Kind("FatArrow")
      [] sym = <<60, 62>> -> Kind("Neq")
      [] sym = <<33, 61>> -> Kind("Neq")
      [] sym = <<60>>     -> Kind("Lt")
      [] sym = <<62>>     -> Kind("Gt")
      [] sym = <<60, 61>> -> Kind("Le")
      [] sym = <<62, 61>> -> Kind("Ge")
      [] OTHER            -> KUserOp(sym)

\* Lexer::next_operator_token
NextOperatorToken(s, start, d) ==
    LET p1 == ExtendOperator(s, start + 1)
    IN  IF p1 = start
        THEN Aborted(p1, d)   \* unimplemented!("comment handling")
        ELSE LET p2 == IF TrimsTrailingSign(Slice(s, start, p1))
                       THEN p1 - 1 ELSE p1
             IN  Returned(Token(OperatorKind(Slice(s, start, p2)),
                                Range(start, p2)), p2, d)

\* The punctuation arms without their second-byte tests: one byte each.
PunctuationTokenOneByte(s, start, d) ==
    LET b == s[start + 1]
        one(tag) == Returned(Token(Kind(tag), Range(start, start + 1)),
                             start + 1, d)
    IN  CASE b = 40  -> one("LParen")
          [] b = 41  -> one("RParen")
          [] b = 91  -> one("LBracket")
          [] b = 93  -> one("RBracket")
          [] b = 123 -> one("LBrace")
          [] b = 125 -> one("RBrace")
          [] b = 46  -> one("Dot")
          [] b = 44  -> one("Comma")
          [] b = 58  -> one("Colon")
          [] b = 59  -> one("Semicolon")

\* The punctuation arms of the match in next_token.
PunctuationToken(s, start, d) ==
    LET b    == s[start + 1]
        p    == start + 1
        nxt  == IF p < Len(s) THEN s[p + 1] ELSE -1
        one(tag) == Returned(Token(Kind(tag), Range(start, p)), p, d)
        two(tag) == Returned(Token(Kind(tag), Range(start, p + 1)), p + 1, d)
    IN  CASE b = 40  -> one("LParen")
          [] b = 41  -> one("RParen")
          [] b = 91  -> one("LBracket")
          [] b = 93  -> one("RBracket")
          [] b = 123 -> one("LBrace")
          [] b = 125 -> one("RBrace")
          [] b = 46  -> IF nxt = 46 THEN two("DotDot") ELSE one("Dot")
          [] b = 44  -> one("Comma")
          [] b = 58  -> IF nxt = 58 THEN two("ColonColon")
                        ELSE IF nxt = 61 THEN two("ColonEq")
                        ELSE one("Colon")
          [] b = 59  -> one("Semicolon")

IsPunctuation(b) == b \in {40, 41, 91, 93, 123, 125, 46, 44, 58, 59}

\* The Eof arm with the range taken from the cursor after the whitespace,
\* as every other arm takes it.
EofTokenAtCursor(start_before_ws, p) == Token(Kind("Eof"), Range(p, p))

\* The Eof arm of next_token: the range runs from the cursor as it was
\* BEFORE the whitespace was skipped (start_before_ws) to the cursor.
EofToken(start_before_ws, p) == Token(Kind("Eof"), Range(start_before_ws, p))

\* The catch-all arm without its diags.add.
UnknownByteTokenUnreported(s, start, d) ==
    Returned(Token(Kind("Unknown"), Range(start, start + 1)), start + 1, d)

\* The catch-all arm moving the cursor two bytes on for a one-byte token.
UnknownByteTokenSkipping(s, start, d) ==
    Returned(Token(Kind("Unknown"), Range(start, start + 1)), start + 2,
             DiagAdd(d, UnknownToken(Range(start, start + 1))))

\* The catch-all arm of the match in next_token: one byte, one diagnostic.
UnknownByteToken(s, start, d) ==
    Returned(Token(Kind("Unknown"), Range(start, start + 1)), start + 1,
             DiagAdd(d, UnknownToken(Range(start, start + 1))))

\* Lexer::next_token
NextToken(s, p0, d) ==
    LET ws == SkipWhitespace(s, p0)
        start == ws.pos
    IN  IF ws.panic THEN Aborted(p0, d)
        ELSE IF start >= Len(s)
        THEN Returned(EofToken(p0, start), start, d)
        ELSE LET b == s[start + 1]
             IN  IF IsIdentStart(b) THEN NextIdentifierToken(s, start, d)
                 ELSE IF IsDigit(b) THEN NextNumericToken(s, start, d)
                 ELSE IF IsPunctuation(b) THEN PunctuationToken(s, start, d)
                 ELSE IF IsSymbol(b) THEN NextOperatorToken(s, start, d)
                 ELSE UnknownByteToken(s, start, d)

RECURSIVE LexWithDiagsLoop(_, _, _, _)

\* lex_with_diags, the loop body once next_token has yielded r: Eof ends
\* the loop and is not pushed.
LexWithDiagsStep(s, toks, r) ==
    IF r.panic THEN [panic |-> TRUE, tokens |-> toks, diags |-> r.diags]
    ELSE IF r.tok.kind.tag = "Eof"
    THEN [panic |-> FALSE, tokens |-> toks, diags |-> r.diags]
    ELSE LexWithDiagsLoop(s, r.pos, r.diags, Append(toks, r.tok))

\* lex_with_diags: one turn of the loop.
LexWithDiagsLoop(s, p, d, toks) == LexWithDiagsStep(s, toks, NextToken(s, p, d))

\* lex_with_diags(src, diags)
LexWithDiags(s, d) == LexWithDiagsLoop(s, 0, d, <<>>)

\* ------------------------------------------------------------------- parser

\* StmtNode { kind: StmtKind::Select { select_list }, range }
StmtSelect(select_list, range) ==
    [kind |-> [tag |-> "Select", select_list |-> select_list], range |-> range]

\* ExprNode { kind: ExprKind::IntegerLiteral { value }, range }
ExprIntegerLiteral(value, range) ==
    [kind |-> [tag |-> "IntegerLiteral", value |-> value], range |-> range]

\* i64::MAX = 9223372036854775807, as digits.
I64MaxDigits == <<9, 2, 2, 3, 3, 7, 2, 0, 3, 6, 8, 5, 4, 7, 7, 5, 8, 0, 7>>

\* a <= b for two digit sequences of the same length.
RECURSIVE DigitsLeq(_, _)
DigitsLeq(a, b) ==
    IF a = <<>> THEN TRUE
    ELSE IF a[1] # b[1] THEN a[1] < b[1]
    ELSE DigitsLeq(Tail(a), Tail(b))

\* Whether i64::try_from(value) succeeds for a non-negative BigInt.
FitsI64(v) ==
    \/ Len(v) < Len(I64MaxDigits)
    \/ (Len(v) = Len(I64MaxDigits) /\ DigitsLeq(v, I64MaxDigits))

\* What a production yields: the node, the new lookahead, and the lexer
\* cursor and diagnostics after it; or abort = TRUE when it panicked.
Produced(node, tok, p, d) ==
    [abort |-> FALSE, nodes |-> <<node>>, tok |-> tok, pos |-> p, diags |-> d]
ProducedList(nodes, tok, p, d) ==
    [abort |-> FALSE, nodes |-> nodes, tok |-> tok, pos |-> p, diags |-> d]
ParseAborted(p, d) ==
    [abort |-> TRUE, nodes |-> <<>>, tok |-> Token(Kind("Unknown"), Range(p, p)),
     pos |-> p, diags |-> d]

\* The pattern TokenKind::KeywordSelect of parse_stmt.  enum TokenKind
\* (token.rs) declares no such variant and the lexer builds none: every
\* identifier run, keyword or not, is returned as TokenKind::Identifier.
IsKeywordSelect(kind) == kind.tag = "KeywordSelect"

\* Parser::parse_expr, the Integer arm after the narrowing: the node, and
\* the token r fetched after the literal as the new lookahead.
ParseExprFetch(tok0, r) ==
    IF r.panic THEN ParseAborted(r.pos, r.diags)
    ELSE Produced(ExprIntegerLiteral(tok0.kind.value, tok0.range),
                  r.tok, r.pos, r.diags)

\* Parser::parse_expr
ParseExpr(s, tok0, p, d) ==
    IF tok0.kind.tag = "Integer"
    THEN IF ~FitsI64(tok0.kind.value)
         THEN ParseAborted(p, d)             \* value.try_into().unwrap()
         ELSE ParseExprFetch(tok0, NextToken(s, p, d))
    ELSE ParseAborted(p, d)                  \* unimplemented!()

\* Parser::parse_stmt, the Select arm once parse_expr has yielded e.
ParseStmtBuild(tok0, e) ==
    IF e.abort THEN ParseAborted(e.pos, e.diags)
    ELSE Produced(StmtSelect(e.nodes, tok0.range), e.tok, e.pos, e.diags)

\* Parser::parse_stmt, the Select arm once the token r after the keyword
\* has been fetched.
ParseStmtExpr(s, tok0, r) ==
    IF r.panic THEN ParseAborted(r.pos, r.diags)
    ELSE ParseStmtBuild(tok0, ParseExpr(s, r.tok, r.pos, r.diags))

\* A parse_stmt that reports a lookahead it cannot start a statement with
\* as a diagnostic and hands the lookahead back.
ParseStmtReporting(s, tok0, p, d) ==
    IF IsKeywordSelect(tok0.kind)
    THEN ParseStmtExpr(s, tok0, NextToken(s, p, d))
    ELSE Produced(StmtSelect(<<>>, tok0.range), tok0, p,
                  DiagAdd(d, UnexpectedEof(tok0.range)))

\* Parser::parse_stmt
ParseStmt(s, tok0, p, d) ==
    IF IsKeywordSelect(tok0.kind)
    THEN ParseStmtExpr(s, tok0, NextToken(s, p, d))
    ELSE ParseAborted(p, d)                  \* unimplemented!()

RECURSIVE ParseStmtMultiLoop(_, _, _, _, _)

\* Parser::parse_stmtmulti, the Semicolon arm once the token r after the
\* semicolon has been fetched: the loop continues with it.
ParseStmtMultiContinue(s, st, stmts, r) ==
    IF r.panic THEN ParseAborted(r.pos, r.diags)
    ELSE ParseStmtMultiLoop(s, r.tok, r.pos, r.diags, stmts \o st.nodes)

\* Parser::parse_stmtmulti, the loop body once parse_stmt has yielded st.
ParseStmtMultiStep(s, stmts, st) ==
    IF st.abort THEN ParseAborted(st.pos, st.diags)
    ELSE IF st.tok.kind.tag = "Semicolon"
    THEN ParseStmtMultiContinue(s, st, stmts, NextToken(s, st.pos, st.diags))
    ELSE IF st.tok.kind.tag = "Eof"
    THEN ProducedList(stmts \o st.nodes, st.tok, st.pos, st.diags)
    ELSE ParseAborted(st.pos, st.diags)      \* panic!("unexpected token ...")

\* Parser::parse_stmtmulti: one turn of the loop, entered with the
\* lookahead tok0 and the statements pushed so far.
ParseStmtMultiLoop(s, tok0, p, d, stmts) ==
    ParseStmtMultiStep(s, stmts, ParseStmt(s, tok0, p, d))

\* Parser::parse_stmtmulti_toplevel, the check after parse_stmtmulti.
ParseStmtMultiCheckEof(m) ==
    IF m.abort THEN m
    ELSE IF m.tok.kind.tag # "Eof"
    THEN ParseAborted(m.pos, m.diags)        \* panic!("unexpected token ...")
    ELSE m

\* Parser::parse_stmtmulti_toplevel, once the first token r is fetched.
ParseStmtMultiStart(s, r) ==
    IF r.panic THEN ParseAborted(r.pos, r.diags)
    ELSE ParseStmtMultiCheckEof(
             ParseStmtMultiLoop(s, r.tok, r.pos, r.diags, <<>>))

\* Parser::parse_stmtmulti_toplevel
ParseStmtMultiToplevel(s, d) == ParseStmtMultiStart(s, NextToken(s, 0, d))

\* Parser::parse_stmt_toplevel, the check after parse_stmt.
ParseStmtCheckEof(st) ==
    IF st.abort THEN st
    ELSE IF st.tok.kind.tag # "Eof"
    THEN [st EXCEPT !.diags = DiagAdd(st.diags, UnexpectedEof(st.tok.range))]
    ELSE st

\* Parser::parse_stmt_toplevel, once the first token r is fetched.
ParseStmtStart(s, r) ==
    IF r.panic THEN ParseAborted(r.pos, r.diags)
    ELSE ParseStmtCheckEof(ParseStmt(s, r.tok, r.pos, r.diags))

\* Parser::parse_stmt_toplevel
ParseStmtToplevel(s, d) == ParseStmtStart(s, NextToken(s, 0, d))

\* The public entry points parse_stmt and parse_stmtmulti: a fresh
\* accumulator, the parse, then CodeDiagnostics::check_errors.
Finalize(r) ==
    IF r.abort THEN [outcome |-> "abort", ast |-> <<>>, diags |-> <<>>]
    ELSE IF HasErrors(r.diags)
    THEN [outcome |-> "err", ast |-> <<>>, diags |-> r.diags]
    ELSE [outcome |-> "ok", ast |-> r.nodes, diags |-> r.diags]

\* ------------------------------------------------------------ wire messages

\* A usize: the number hi * 2^16 + lo, with 0 <= lo < 2^16, so that lengths
\* of 2^31 bytes and more, where `as u32` truncates, can be written down.
Size(hi, lo) == [hi |-> hi, lo |-> lo]
USize(n) == Size(n \div 65536, n % 65536)
SizeAdd(a, b) ==
    Size(a.hi + b.hi + ((a.lo + b.lo) \div 65536), (a.lo + b.lo) % 65536)
SizeLess(a, b) == a.hi < b.hi \/ (a.hi = b.hi /\ a.lo < b.lo)

\* u32::MAX
U32_MAX == Size(65535, 65535)

\* n as u32, and the u32 addition a + b: its value and whether it overflows
AsU32(n) == Size(n.hi % 65536, n.lo)
U32Overflows(a, b) == SizeLess(U32_MAX, SizeAdd(a, b))
U32WrappingAdd(a, b) == AsU32(SizeAdd(a, b))

\* A byte string (BString, or the argument of one write_all) given by its
\* first bytes and the number of bytes that follow them.
Bytes(head) == [head |-> head, fill |-> USize(0)]
BytesThen(head, fill) == [head |-> head, fill |-> fill]
BLen(b) == SizeAdd(USize(Len(b.head)), b.fill)

\* is_null_free: no zero byte (the bytes after the head are not zero).
IsNullFree(b) == \A k \in 1..Len(b.head) : b.head[k] # 0

\* u16::MAX
U16_MAX == 65535

\* n as u16
U16(n) == n % (U16_MAX + 1)

\* u16::to_be_bytes, and u32::to_be_bytes of a u32 held as a Size
BE16(n) == <<(n \div 256) % 256, n % 256>>
BE32(n) == BE16(n.hi) \o BE16(n.lo)

\* The ServerMessage variants; TransactionStatus is "Idle", "InTransaction"
\* or "InFailedTransaction".
AuthenticationOk ==
    [tag |-> "AuthenticationOk", status |-> "none", columns |-> <<>>,
     fields |-> <<>>, text |-> Bytes(<<>>)]
ReadyForQuery(s) ==
    [tag |-> "ReadyForQuery", status |-> s, columns |-> <<>>,
     fields |-> <<>>, text |-> Bytes(<<>>)]
RowDescription(columns) ==
    [tag |-> "RowDescription", status |-> "none", columns |-> columns,
     fields |-> <<>>, text |-> Bytes(<<>>)]
DataRow(fields) ==
    [tag |-> "DataRow", status |-> "none", columns |-> <<>>,
     fields |-> fields, text |-> Bytes(<<>>)]
CommandComplete(text) ==
    [tag |-> "CommandComplete", status |-> "none", columns |-> <<>>,
     fields |-> <<>>, text |-> text]

\* struct ColumnDescription
ColumnDescription(name, table_oid, column_attr_no, data_type_oid, data_type_size, type_modifier, format_code) ==
    [name |-> name, table_oid |-> table_oid,
     column_attr_no |-> column_attr_no, data_type_oid |-> data_type_oid,
     data_type_size |-> data_type_size, type_modifier |-> type_modifier,
     format_code |-> format_code]

\* Option<BString>: Some(value) and None
Some(value) == [null |-> FALSE, value |-> value]
None == [null |-> TRUE, value |-> Bytes(<<>>)]

\* columns.iter().map(|column| 19 + column.name.len()).sum::<usize>()
RECURSIVE SumColumns(_)
SumColumns(columns) ==
    IF columns = <<>> THEN USize(0)
    ELSE SizeAdd(SizeAdd(USize(19), BLen(Head(columns).name)),
                 SumColumns(Tail(columns)))

\* fields.iter().map(|field| 4 + field.len(), or 4 for None).sum::<usize>()
RECURSIVE SumFields(_)
SumFields(fields) ==
    IF fields = <<>> THEN USize(0)
    ELSE SizeAdd(IF Head(fields).null THEN USize(4)
                 ELSE SizeAdd(USize(4), BLen(Head(fields).value)),
                 SumFields(Tail(fields)))

\* impl From<TransactionStatus> for u8
StatusByte(s) ==
    CASE s = "Idle"                -> 73
      [] s = "InTransaction"       -> 84
      [] s = "InFailedTransaction" -> 70

\* ServerMessage::msg_type
MsgType(m) ==
    CASE m.tag = "AuthenticationOk" -> 82
      [] m.tag = "ReadyForQuery"    -> 90
      [] m.tag = "RowDescription"   -> 84
      [] m.tag = "DataRow"          -> 68
      [] m.tag = "CommandComplete"  -> 67

\* ServerMessage::byte_len (usize arithmetic, 64 bits wide)
ByteLen(m) ==
    CASE m.tag = "AuthenticationOk" -> USize(4)
      [] m.tag = "ReadyForQuery"    -> USize(1)
      [] m.tag = "RowDescription"
           -> SizeAdd(USize(2), SumColumns(m.columns))
      [] m.tag = "DataRow"
           -> SizeAdd(USize(2), SumFields(m.fields))
      [] m.tag = "CommandComplete"  -> SizeAdd(BLen(m.text), USize(1))

\* ServerMessage::validate: TRUE when every assert! passes.
Validate(m) ==
    CASE m.tag \in {"AuthenticationOk", "ReadyForQuery"} -> TRUE
      [] m.tag = "RowDescription"
           -> /\ Len(m.columns) <= U16_MAX
              /\ \A k \in 1..Len(m.columns) : IsNullFree(m.columns[k].name)
      [] m.tag = "DataRow"
           -> /\ Len(m.fields) <= U16_MAX
              /\ \A k \in 1..Len(m.fields) :
                    ~m.fields[k].null
                        => SizeLess(BLen(m.fields[k].value), U32_MAX)
      [] m.tag = "CommandComplete" -> IsNullFree(m.text)

\* The write_all calls of one column of RowDescription.
RECURSIVE WriteColumns(_)
WriteColumns(columns) ==
    IF columns = <<>> THEN <<>>
    ELSE LET column == Head(columns)
         IN  <<column.name, Bytes(<<0>>), Bytes(BE32(column.table_oid)),
               Bytes(BE16(column.column_attr_no)),
               Bytes(BE32(column.data_type_oid)),
               Bytes(BE16(column.data_type_size)),
               Bytes(BE32(column.type_modifier)),
               Bytes(BE16(column.format_code))>>
             \o WriteColumns(Tail(columns))

\* The write_all calls of the fields of DataRow.
RECURSIVE WriteFields(_)
WriteFields(fields) ==
    IF fields = <<>> THEN <<>>
    ELSE (IF Head(fields).null
          THEN <<Bytes(<<255, 255, 255, 255>>)>>
          ELSE <<Bytes(BE32(AsU32(BLen(Head(fields).value)))),
                 Head(fields).value>>)
         \o WriteFields(Tail(fields))

\* The match of write_to: the write_all calls after the length field.
WritePayload(m) ==
    CASE m.tag = "AuthenticationOk" -> <<Bytes(<<0, 0, 0, 0>>)>>
      [] m.tag = "ReadyForQuery"    -> <<Bytes(<<StatusByte(m.status)>>)>>
      [] m.tag = "RowDescription"
           -> <<Bytes(BE16(U16(Len(m.columns))))>> \o WriteColumns(m.columns)
      [] m.tag = "DataRow"
           -> <<Bytes(BE16(U16(Len(m.fields))))>> \o WriteFields(m.fields)
      [] m.tag = "CommandComplete"  -> <<m.text, Bytes(<<0>>)>>

\* What a write_to call leaves: the write_all calls made, in order, and
\* whether the call panicked.
Wrote(out) == [panic |-> FALSE, out |-> out]
WritePanicked(out) == [panic |-> TRUE, out |-> out]

\* ServerMessage::write_to.  `self.byte_len() as u32 + 4` overflows u32 when
\* the truncated length is above u32::MAX - 4: a panic in a build with
\* overflow checks ("debug"), a wrap-around without them ("release").
WriteTo(m, build) ==
    IF ~Validate(m) THEN WritePanicked(<<>>)
    ELSE IF U32Overflows(AsU32(ByteLen(m)), USize(4)) /\ build = "debug"
    THEN WritePanicked(<<Bytes(<<MsgType(m)>>)>>)
    ELSE Wrote(<<Bytes(<<MsgType(m)>>),
                 Bytes(BE32(U32WrappingAdd(AsU32(ByteLen(m)), USize(4))))>>
               \o WritePayload(m))

\* ------------------------------------------------------------ client messages

\* CANCEL_REQUEST_VERSION, SSL_REQUEST_VERSION, GSSENC_REQUEST_VERSION
CANCEL_REQUEST_VERSION == <<1234, 5678>>
SSL_REQUEST_VERSION    == <<1234, 5679>>
GSSENC_REQUEST_VERSION == <<1234, 5680>>

\* u16::from_be_bytes and u32::from_be_bytes (the u32 as a Size)
FromBE16(b) == b[1] * 256 + b[2]
FromBE32(b) == Size(FromBE16(SubSeq(b, 1, 2)), FromBE16(SubSeq(b, 3, 4)))

\* The value of a usize that is known to be small.
SmallValue(n) == n.hi * 65536 + n.lo

\* What read_from returns and where it leaves the reader: Ok(msg), or
\* Err(PgError::Io) / Err(PgError::InvalidMessage).
ReadOk(msg, p) == [err |-> "none", msg |-> msg, pos |-> p]
ReadErr(err, p) ==
    [err |-> err, pos |-> p,
     msg |-> [tag |-> "none", version |-> <<0, 0>>, params |-> <<>>,
              process_id |-> USize(0), secret_key |-> USize(0),
              query |-> <<>>]]

\* The ClientStartupMessage variants
StartupMessage(version, params) ==
    [tag |-> "StartupMessage", version |-> version, params |-> params,
     process_id |-> USize(0), secret_key |-> USize(0), query |-> <<>>]
CancelRequest(process_id, secret_key) ==
    [tag |-> "CancelRequest", version |-> CANCEL_REQUEST_VERSION,
     params |-> <<>>, process_id |-> process_id, secret_key |-> secret_key,
     query |-> <<>>]
SslRequest ==
    [tag |-> "SslRequest", version |-> SSL_REQUEST_VERSION, params |-> <<>>,
     process_id |-> USize(0), secret_key |-> USize(0), query |-> <<>>]
GssEncRequest ==
    [tag |-> "GssEncRequest", version |-> GSSENC_REQUEST_VERSION,
     params |-> <<>>, process_id |-> USize(0), secret_key |-> USize(0),
     query |-> <<>>]

\* The ClientMessage variants
Query(q) ==
    [tag |-> "Query", version |-> <<0, 0>>, params |-> <<>>,
     process_id |-> USize(0), secret_key |-> USize(0), query |-> q]
Terminate ==
    [tag |-> "Terminate", version |-> <<0, 0>>, params |-> <<>>,
     process_id |-> USize(0), secret_key |-> USize(0), query |-> <<>>]

\* find_byte: the offset of the first byte b of s, or -1
RECURSIVE FindByteFrom(_, _, _)
FindByteFrom(s, b, k) ==
    IF k >= Len(s) THEN -1
    ELSE IF s[k + 1] = b THEN k
    ELSE FindByteFrom(s, b, k + 1)
FindByte(s, b) == FindByteFrom(s, b, 0)

\* parse_params: the map of the key/value pairs (a later insert of a key
\* replaces the earlier one), or an error.
RECURSIVE ParseParamsLoop(_, _)
ParseParamsLoop(s, params) ==
    LET term == FindByte(s, 0)
    IN  IF term = -1 THEN [ok |-> FALSE, params |-> <<>>]
        ELSE IF term = 0
        THEN IF s = <<0>> THEN [ok |-> TRUE, params |-> params]
             ELSE [ok |-> FALSE, params |-> <<>>]
        ELSE LET key  == Slice(s, 0, term)
                 s1   == Slice(s, term + 1, Len(s))
                 term1 == FindByte(s1, 0)
             IN  IF term1 = -1 THEN [ok |-> FALSE, params |-> <<>>]
                 ELSE ParseParamsLoop(Slice(s1, term1 + 1, Len(s1)),
                                      (key :> Slice(s1, 0, term1)) @@ params)
ParseParams(s) == ParseParamsLoop(s, <<>>)

\* The decoding of ClientStartupMessage::read_from once buf is read.
DecodeStartup(buf, p) ==
    IF Len(buf) < 4 THEN ReadErr("InvalidMessage", p)
    ELSE LET version == <<FromBE16(SubSeq(buf, 1, 2)),
                          FromBE16(SubSeq(buf, 3, 4))>>
         IN  IF version = CANCEL_REQUEST_VERSION
             THEN IF Len(buf) # 12 THEN ReadErr("InvalidMessage", p)
                  ELSE ReadOk(CancelRequest(FromBE32(SubSeq(buf, 5, 8)),
                                            FromBE32(SubSeq(buf, 9, 12))), p)
             ELSE IF version = SSL_REQUEST_VERSION
             THEN IF Len(buf) # 4 THEN ReadErr("InvalidMessage", p)
                  ELSE ReadOk(SslRequest, p)
             ELSE IF version = GSSENC_REQUEST_VERSION
             THEN IF Len(buf) # 4 THEN ReadErr("InvalidMessage", p)
                  ELSE ReadOk(GssEncRequest, p)
             ELSE IF ~ParseParams(Slice(buf, 4, Len(buf))).ok
             THEN ReadErr("InvalidMessage", p)
             ELSE ReadOk(StartupMessage(
                             version,
                             ParseParams(Slice(buf, 4, Len(buf))).params), p)

\* The match on msg_type of ClientMessage::read_from once buf is read.
DecodeClient(msg_type, buf, p) ==
    IF msg_type = 81
    THEN IF \/ Len(buf) = 0
            \/ buf[Len(buf)] # 0
            \/ \E k \in 1..(Len(buf) - 1) : buf[k] = 0
         THEN ReadErr("InvalidMessage", p)
         ELSE ReadOk(Query(SubSeq(buf, 1, Len(buf) - 1)), p)
    ELSE IF msg_type = 88
    THEN IF Len(buf) # 0 THEN ReadErr("InvalidMessage", p)
         ELSE ReadOk(Terminate, p)
    ELSE ReadErr("InvalidMessage", p)

\* read_u32, the length check and read_exact, from offset p of the stream s:
\* the end of the stream inside either read is an io::Error.
ReadFrame(s, p) ==
    IF p + 4 > Len(s) THEN [err |-> "Io", buf |-> <<>>, pos |-> Len(s)]
    ELSE LET len == FromBE32(Slice(s, p, p + 4))
         IN  IF SizeLess(len, USize(4))
             THEN [err |-> "InvalidMessage", buf |-> <<>>, pos |-> p + 4]
             ELSE IF SizeLess(USize(Len(s) - p), len)
             THEN [err |-> "Io", buf |-> <<>>, pos |-> Len(s)]
             ELSE [err |-> "none",
                   buf |-> Slice(s, p + 4, p + SmallValue(len)),
                   pos |-> p + SmallValue(len)]

\* ClientStartupMessage::read_from
ReadStartup(s, p) ==
    IF ReadFrame(s, p).err # "none"
    THEN ReadErr(ReadFrame(s, p).err, ReadFrame(s, p).pos)
    ELSE DecodeStartup(ReadFrame(s, p).buf, ReadFrame(s, p).pos)

\* ClientMessage::read_from
ReadClient(s, p) ==
    IF p + 1 > Len(s) THEN ReadErr("Io", Len(s))
    ELSE IF ReadFrame(s, p + 1).err # "none"
    THEN ReadErr(ReadFrame(s, p + 1).err, ReadFrame(s, p + 1).pos)
    ELSE DecodeClient(s[p + 1], ReadFrame(s, p + 1).buf,
                      ReadFrame(s, p + 1).pos)

\* ------------------------------------------------------------------ session

\* "?column?", "SELECT 1" and "1"
S_column   == <<63, 99, 111, 108, 117, 109, 110, 63>>
S_SELECT_1 == <<83, 69, 76, 69, 67, 84, 32, 49>>
S_1        == <<49>>

\* The column main.rs describes for SELECT 1.
ColumnOfSelect1 ==
    ColumnDescription(Bytes(S_column), USize(0), 0, USize(23), 4, USize(0), 0)

\* The bytes of the write_all calls of a message that holds them all.
WireBytes(out) == Flatten([k \in 1..Len(out) |-> out[k].head])

\* What the task did, in order: a read_from call and what it returned, a
\* write_to or write_all call and the bytes it wrote, a flush.
ReadEvent(reader, r) ==
    [ev |-> reader,
     tag |-> IF r.err = "none" THEN r.msg.tag ELSE r.err,
     bytes |-> r.msg.query]
WriteEvent(m, build) ==
    [ev |-> "write_to", tag |-> m.tag, bytes |-> WireBytes(WriteTo(m, build).out)]
WriteAllEvent(bytes) == [ev |-> "write_all", tag |-> "raw", bytes |-> bytes]
FlushEvent == [ev |-> "flush", tag |-> "flush", bytes |-> <<>>]

\* "SELECT 1;"
S_SELECT_1_semicolon == S_SELECT_1 \o <<59>>

\* The arms of the startup loop without the answer to SSLRequest and
\* GSSENCRequest.
StartupEventsNoRefusal(tag, build) ==
    IF tag = "StartupMessage"
    THEN <<WriteEvent(AuthenticationOk, build),
           WriteEvent(ReadyForQuery("Idle"), build), FlushEvent>>
    ELSE <<>>

\* What the task writes after the startup loop read a message: "N" and a
\* flush for SslRequest and GssEncRequest; for StartupMessage, after the
\* break, AuthenticationOk, ReadyForQuery(Idle) and a flush.
StartupEvents(tag, build) ==
    IF tag = "StartupMessage"
    THEN <<WriteEvent(AuthenticationOk, build),
           WriteEvent(ReadyForQuery("Idle"), build), FlushEvent>>
    ELSE IF tag \in {"SslRequest", "GssEncRequest"}
    THEN <<WriteAllEvent(<<78>>), FlushEvent>>
    ELSE <<>>

\* What the task writes for Query(q) in the query loop, reached for
\* "SELECT 1;" only, with the ReadyForQuery and flush that end the iteration.
QueryEvents(q, build) ==
    <<WriteEvent(RowDescription(<<ColumnOfSelect1>>), build),
      WriteEvent(DataRow(<<Some(Bytes(S_1))>>), build),
      WriteEvent(CommandComplete(Bytes(S_SELECT_1)), build),
      WriteEvent(ReadyForQuery("Idle"), build), FlushEvent>>

\* The session after one pass of the startup loop read r.
AfterStartupRead(s, r) ==
    IF r.err # "none"
    THEN [s EXCEPT !.phase = "error", !.rpos = r.pos,
                   !.log = Append(s.log, ReadEvent("read_startup", r))]
    ELSE [s EXCEPT
            !.phase = CASE r.msg.tag = "StartupMessage" -> "ready"
                        [] r.msg.tag = "CancelRequest"  -> "panic"
                        [] OTHER                        -> "startup",
            !.rpos = r.pos,
            !.log = Append(s.log, ReadEvent("read_startup", r))
                    \o StartupEvents(r.msg.tag, s.build)]

\* The session after one pass of the query loop read r.
AfterClientRead(s, r) ==
    IF r.err # "none"
    THEN [s EXCEPT !.phase = "error", !.rpos = r.pos,
                   !.log = Append(s.log, ReadEvent("read_message", r))]
    ELSE IF r.msg.tag = "Terminate"
    THEN [s EXCEPT !.phase = "done", !.rpos = r.pos,
                   !.log = Append(s.log, ReadEvent("read_message", r))]
    ELSE IF r.msg.query = S_SELECT_1_semicolon
    THEN [s EXCEPT !.rpos = r.pos,
                   !.log = Append(s.log, ReadEvent("read_message", r))
                           \o QueryEvents(r.msg.query, s.build)]
    ELSE [s EXCEPT !.phase = "panic", !.rpos = r.pos,
                   !.log = Append(s.log, ReadEvent("read_message", r))]

\* ------------------------------------------------------------------- inputs

\* Every text of at most n characters (or pieces) of the alphabet.
Texts(alphabet, n) ==
    { Flatten(f) : f \in UNION { [1..k -> alphabet] : k \in 0..n } }

\* Characters of the general lexer runs: a 1 space U+00A0 - / * ; : " $
LexChars ==
    {<<97>>, <<49>>, <<32>>, <<194, 160>>, <<45>>, <<47>>, <<42>>, <<59>>,
     <<58>>, <<34>>, <<36>>}

\* Characters of the identifier runs: a s A S U+00D6 1 _ $ space
IdentChars ==
    {<<97>>, <<115>>, <<65>>, <<83>>, <<195, 150>>, <<49>>, <<95>>, <<36>>,
     <<32>>}

\* Inputs of the tests of lexer.rs and symbols.rs on identifiers:
\* "FÖO", "föo", "FoO", "foo$bar", and the keywords select / SeLeCt / from.
T_FOO_upper == <<70, 195, 150, 79>>
T_foo_lower == <<102, 195, 182, 111>>
T_FoO       == <<70, 111, 79>>
T_foo_dollar == <<102, 111, 111, 36, 98, 97, 114>>
T_SeLeCt    == <<83, 101, 76, 101, 67, 116>>
IdentTests ==
    {T_FOO_upper, T_foo_lower, T_FoO, T_foo_dollar, S_select, T_SeLeCt, S_from}

\* Characters of the number runs: 0 1 2 _ a $ U+00D6 space
NumChars ==
    {<<48>>, <<49>>, <<50>>, <<95>>, <<97>>, <<36>>, <<195, 150>>, <<32>>}

\* Inputs of test_lex_integer_simple, _decimal_leading_zeros and
\* _underscores: "12345", "00012345", "12_345_678"; and "12345678".
T_12345      == <<49, 50, 51, 52, 53>>
T_00012345   == <<48, 48, 48, 49, 50, 51, 52, 53>>
T_12_345_678 == <<49, 50, 95, 51, 52, 53, 95, 54, 55, 56>>
T_12345678   == <<49, 50, 51, 52, 53, 54, 55, 56>>
NumTests == {T_12345, T_00012345, T_12_345_678, T_12345678}

\* Characters of the punctuation runs: . : = ( ; a space
PunctChars == {<<46>>, <<58>>, <<61>>, <<40>>, <<59>>, <<97>>, <<32>>}

\* Inputs of test_lex_lparen .. test_lex_semicolon in one text, "()[]{}.,:;",
\* and of test_lex_dot_dot, test_lex_colon_colon and test_lex_colon_eq with
\* one more byte: "...", ":::", "::=", ":=:"
T_all_punctuation == <<40, 41, 91, 93, 123, 125, 46, 44, 58, 59>>
T_dot_dot_dot     == <<46, 46, 46>>
T_colon_colon_colon == <<58, 58, 58>>
T_colon_colon_eq  == <<58, 58, 61>>
T_colon_eq_colon  == <<58, 61, 58>>
PunctTests ==
    {T_all_punctuation, T_dot_dot_dot, T_colon_colon_colon, T_colon_colon_eq,
     T_colon_eq_colon}

\* Characters of the operator runs: + - * / < = > ! @
OpChars ==
    {<<43>>, <<45>>, <<42>>, <<47>>, <<60>>, <<61>>, <<62>>, <<33>>, <<64>>}

\* Input of test_lex_user_op_all_symbols: @~!#%^&|?+*/<=>-
T_all_symbols ==
    <<64, 126, 33, 35, 37, 94, 38, 124, 63, 43, 42, 47, 60, 61, 62, 45>>
\* Inputs of test_lex_caret and test_lex_percent, and the two spellings of
\* not-equal beside a user-defined operator: "<> != @"
T_caret   == <<94>>
T_percent == <<37>>
T_neq_both == <<60, 62, 32, 33, 61, 32, 64>>
OpTests == {T_all_symbols, T_caret, T_percent, T_neq_both}

\* Pieces of the parser runs: select SELECT space 1 42 ; x +
T_SELECT == <<83, 69, 76, 69, 67, 84>>
Pieces ==
    {S_select, T_SELECT, <<32>>, <<49>>, <<52, 50>>, <<59>>, <<120>>, <<43>>}

\* Statement lists "SELECT <literal>" joined by semicolons, with the
\* abstract syntax tree the parser's tests expect for them.
Spellings   == {S_select, T_SELECT}
Blanks      == {<<32>>, <<32, 10>>}
Literals    == {[text |-> <<49>>, value |-> <<1>>],
                [text |-> <<52, 50>>, value |-> <<4, 2>>]}
Statements  == [sel : Spellings, ws : Blanks, lit : Literals]
Separator   == <<59, 32>>

StatementText(st) == st.sel \o st.ws \o st.lit.text

\* The statement node expected for a statement whose text starts at off.
StatementNode(st, off) ==
    StmtSelect(<<ExprIntegerLiteral(
                    st.lit.value,
                    Range(off + Len(st.sel) + Len(st.ws),
                          off + Len(StatementText(st))))>>,
               Range(off, off + Len(st.sel)))

\* A statement list: its text, the statements expected, whether its text
\* ends with a semicolon.
ListOfOne(st, trailing) ==
    [text |-> StatementText(st) \o (IF trailing THEN <<59>> ELSE <<>>),
     stmts |-> <<StatementNode(st, 0)>>,
     trailing |-> trailing]
ListOfTwo(st1, st2, trailing) ==
    [text |-> StatementText(st1) \o Separator \o StatementText(st2)
              \o (IF trailing THEN <<59>> ELSE <<>>),
     stmts |-> <<StatementNode(st1, 0),
                 StatementNode(st2, Len(StatementText(st1)) + Len(Separator))>>,
     trailing |-> trailing]
\* One token left after a statement: ; + x 1, the last two after a space.
\* skip is the whitespace before the leftover token.
Leftovers ==
    {[text |-> <<59>>, skip |-> 0], [text |-> <<43>>, skip |-> 0],
     [text |-> <<32, 120>>, skip |-> 1], [text |-> <<32, 49>>, skip |-> 1]}

\* One unscannable byte left after a statement, after a space: $ "
UnknownLeftovers ==
    {[text |-> <<32, 36>>, skip |-> 1], [text |-> <<32, 34>>, skip |-> 1]}

\* Texts with lexical problems: "select 1 $ $", "$ select 1",
\* "select 1 2a $".
T_two_problems     == S_select \o <<32, 49, 32, 36, 32, 36>>
T_problem_first    == <<36, 32>> \o S_select \o <<32, 49>>
T_numeral_problem  == S_select \o <<32, 49, 32, 50, 97, 32, 36>>
ProblemTexts == {T_two_problems, T_problem_first, T_numeral_problem}

\* SELECT followed by a literal at the edge of the signed 64-bit range:
\* i64::MAX, i64::MAX + 1, and i64::MAX with leading zeros and underscores.
DigitBytes(ds) == [k \in 1..Len(ds) |-> ds[k] + 48]
I64OverDigits == <<9, 2, 2, 3, 3, 7, 2, 0, 3, 6, 8, 5, 4, 7, 7, 5, 8, 0, 8>>
EdgeLiterals ==
    {[text |-> DigitBytes(I64MaxDigits), value |-> I64MaxDigits],
     [text |-> DigitBytes(I64OverDigits), value |-> I64OverDigits],
     [text |-> <<48, 95>> \o DigitBytes(I64MaxDigits), value |-> I64MaxDigits],
     [text |-> <<52, 50>>, value |-> <<4, 2>>],
     [text |-> <<48>>, value |-> <<0>>]}
EdgeStatements == [sel : Spellings, ws : {<<32>>}, lit : EdgeLiterals]

StatementLists ==
    { ListOfOne(st, tr) : st \in Statements, tr \in BOOLEAN }
    \cup { ListOfTwo(st1, st2, tr) :
             st1 \in Statements, st2 \in Statements, tr \in BOOLEAN }

\* ------------------------------------------------------------ specification

\* One call of Lexer::next_token by the caller's loop (lex_with_diags, or
\* any caller that keeps calling after Eof).
NextTokenCall ==
    /\ entry = "lex"
    /\ status = "run"
    /\ Cardinality({i \in 1..Len(tokens) : tokens[i].kind.tag = "Eof"})
          < MaxEofCalls
    /\ LET r == NextToken(src, pos, diags)
       IN  IF r.panic
           THEN /\ status' = "panic"
                /\ UNCHANGED <<pos, diags, tokens, added>>
           ELSE /\ status' = "run"
                /\ pos' = r.pos
                /\ diags' = r.diags
                /\ tokens' = Append(tokens, r.tok)
                /\ added' = IF r.tok.kind.tag = "Unknown"
                            THEN Append(added, UnknownToken(r.tok.range))
                            ELSE added
    /\ UNCHANGED <<src, entry, outcome, ast, checked, rendered>>
    /\ UNCHANGED <<symbols, par, session, wire>>

\* Lexer::new(src) with a fresh CodeDiagnostics::new().
LexerNew(inputs) ==
    /\ src \in inputs
    /\ pos = 0
    /\ diags = <<>>
    /\ tokens = <<>>
    /\ status = "run"
    /\ entry = "lex"
    /\ outcome = "none"
    /\ ast = <<>>
    /\ added = <<>>
    /\ checked = NotChecked
    /\ rendered = NotRendered
    /\ symbols = NoSymbols
    /\ par = NoThreads
    /\ session = NoSession
    /\ wire = NoWire

\* The caller receives Ok(ast), Err(diagnostics) or the abort.
Receive(f) ==
    /\ outcome' = f.outcome
    /\ ast' = f.ast
    /\ diags' = f.diags

\* pub fn parse_stmt(src)
CallParseStmt ==
    /\ entry = "parse"
    /\ Receive(Finalize(ParseStmtToplevel(src, <<>>)))
    /\ entry' = "parse_stmt"
    /\ UNCHANGED <<src, pos, tokens, status, added, checked, rendered>>
    /\ UNCHANGED <<symbols, par, session, wire>>

\* pub fn parse_stmtmulti(src)
CallParseStmtMulti ==
    /\ entry = "parse"
    /\ Receive(Finalize(ParseStmtMultiToplevel(src, <<>>)))
    /\ entry' = "parse_stmtmulti"
    /\ UNCHANGED <<src, pos, tokens, status, added, checked, rendered>>
    /\ UNCHANGED <<symbols, par, session, wire>>

\* The caller of a _with_diags entry point receives the node(s) and finds
\* the diagnostics in its accumulator, or the call aborted.  tokens and pos
\* record the lookahead the top-level production was left with and the
\* lexer's cursor at that moment.
ReceiveWithDiags(r) ==
    /\ outcome' = IF r.abort THEN "abort" ELSE "returned"
    /\ ast' = r.nodes
    /\ diags' = r.diags
    /\ tokens' = IF r.abort THEN <<>> ELSE <<r.tok>>
    /\ pos' = r.pos

\* What the caller's accumulator may hold before it is handed to a
\* _with_diags entry point: nothing, or a diagnostic of an earlier parse.
CallerDiags == {<<>>, <<UnexpectedEof(Range(7, 9))>>}

\* pub fn parse_stmt_with_diags(src, diags); added is the accumulator as
\* the caller hands it over.
CallParseStmtWithDiags ==
    /\ entry = "parse"
    /\ \E d0 \in CallerDiags :
          /\ added' = d0
          /\ ReceiveWithDiags(ParseStmtToplevel(src, d0))
    /\ entry' = "parse_stmt_with_diags"
    /\ UNCHANGED <<src, status, checked, rendered>>
    /\ UNCHANGED <<symbols, par, session, wire>>

\* pub fn parse_stmtmulti_with_diags(src, diags); added is the accumulator
\* as the caller hands it over.
CallParseStmtMultiWithDiags ==
    /\ entry = "parse"
    /\ \E d0 \in CallerDiags :
          /\ added' = d0
          /\ ReceiveWithDiags(ParseStmtMultiToplevel(src, d0))
    /\ entry' = "parse_stmtmulti_with_diags"
    /\ UNCHANGED <<src, status, checked, rendered>>
    /\ UNCHANGED <<symbols, par, session, wire>>

\* A query text handed to the parser, before any entry point is called.
ParserNew(inputs) ==
    /\ src \in inputs
    /\ pos = 0
    /\ diags = <<>>
    /\ tokens = <<>>
    /\ status = "run"
    /\ entry = "parse"
    /\ outcome = "none"
    /\ ast = <<>>
    /\ added = <<>>
    /\ checked = NotChecked
    /\ rendered = NotRendered
    /\ symbols = NoSymbols
    /\ par = NoThreads
    /\ session = NoSession
    /\ wire = NoWire

\* The lexer on mixed inputs.
Init == LexerNew(Texts(LexChars, MaxChars))
Next == NextTokenCall
Spec == Init /\ [][Next]_vars

\* The lexer on identifier and number runs.
InitIdent == LexerNew(Texts(IdentChars, MaxChars) \cup IdentTests)
SpecIdent == InitIdent /\ [][Next]_vars

\* The lexer on operator runs.
InitOp == LexerNew(Texts(OpChars, MaxChars) \cup OpTests)
SpecOp == InitOp /\ [][Next]_vars

\* The lexer on punctuation.
InitPunct == LexerNew(Texts(PunctChars, MaxChars) \cup PunctTests)
SpecPunct == InitPunct /\ [][Next]_vars

\* The lexer on number runs.
InitNum == LexerNew(Texts(NumChars, MaxChars) \cup NumTests)
SpecNum == InitNum /\ [][Next]_vars

\* The diagnostics that are handed to add in the accumulator runs.
Diagnostics ==
    {UnknownToken(Range(0, 1)), UnknownToken(Range(1, 2)),
     UnexpectedEof(Range(0, 1)), UnexpectedEof(Range(1, 2))}

\* Characters of the text lexed in the accumulator runs: " a space
DiagChars == {<<34>>, <<97>>, <<32>>}

\* A fresh accumulator, CodeDiagnostics::new(), beside a text to lex.
DiagnosticsNew(inputs) ==
    /\ src \in inputs
    /\ pos = 0
    /\ diags = <<>>
    /\ tokens = <<>>
    /\ status = "run"
    /\ entry = "diag"
    /\ outcome = "none"
    /\ ast = <<>>
    /\ added = <<>>
    /\ checked = NotChecked
    /\ rendered = NotRendered
    /\ symbols = NoSymbols
    /\ par = NoThreads
    /\ session = NoSession
    /\ wire = NoWire

\* diags.add(diagnostic) by the caller.
DiagAddCall ==
    /\ entry = "diag"
    /\ status # "panic"
    /\ checked = NotChecked
    /\ Len(added) < MaxDiags
    /\ \E diagnostic \in Diagnostics :
          /\ diags' = DiagAdd(diags, diagnostic)
          /\ added' = Append(added, diagnostic)
    /\ UNCHANGED <<src, pos, tokens, status, entry, outcome, ast,
                   checked, rendered>>
    /\ UNCHANGED <<symbols, par, session, wire>>

\* The diagnostics the lexer adds for the tokens it returned: one
\* UnknownToken per Unknown token.
RECURSIVE DiagnosticsOf(_)
DiagnosticsOf(toks) ==
    IF toks = <<>> THEN <<>>
    ELSE (IF Head(toks).kind.tag = "Unknown"
          THEN <<UnknownToken(Head(toks).range)>> ELSE <<>>)
         \o DiagnosticsOf(Tail(toks))

\* What the caller holds after lex_with_diags yielded l.
LexWithDiagsReturn(l) ==
    /\ status' = IF l.panic THEN "panic" ELSE "lexed"
    /\ tokens' = l.tokens
    /\ diags' = l.diags
    /\ added' = added \o DiagnosticsOf(l.tokens)

\* lex_with_diags(src, diags) on the caller's accumulator.
LexWithDiagsCall ==
    /\ entry = "diag"
    /\ status = "run"
    /\ checked = NotChecked
    /\ src # <<>>
    /\ LexWithDiagsReturn(LexWithDiags(src, diags))
    /\ UNCHANGED <<src, pos, entry, outcome, ast, checked, rendered>>
    /\ UNCHANGED <<symbols, par, session, wire>>

\* diags.check_errors()
CheckErrorsCall ==
    /\ entry = "diag"
    /\ status # "panic"
    /\ checked = NotChecked
    /\ checked' = [tag |-> CheckErrors(diags).tag, by |-> "check_errors",
                   diagnostics |-> CheckErrors(diags).diagnostics]
    /\ UNCHANGED <<src, pos, diags, tokens, status, entry, outcome, ast,
                   added, rendered>>
    /\ UNCHANGED <<symbols, par, session, wire>>

\* CodeError::from(diags)
CodeErrorFromCall ==
    /\ entry = "diag"
    /\ status # "panic"
    /\ checked = NotChecked
    /\ checked' = [tag |-> CodeErrorFrom(diags).tag, by |-> "from",
                   diagnostics |-> CodeErrorFrom(diags).diagnostics]
    /\ UNCHANGED <<src, pos, diags, tokens, status, entry, outcome, ast,
                   added, rendered>>
    /\ UNCHANGED <<symbols, par, session, wire>>

\* format!("{}", error) on the CodeError
DisplayCall ==
    /\ entry = "diag"
    /\ checked.tag = "Err"
    /\ rendered = NotRendered
    /\ rendered' = [done |-> TRUE, lines |-> Display(checked.diagnostics)]
    /\ UNCHANGED <<src, pos, diags, tokens, status, entry, outcome, ast,
                   added, checked>>
    /\ UNCHANGED <<symbols, par, session, wire>>

\* The accumulator, the terminal error and its rendering.
InitDiag == DiagnosticsNew(Texts(DiagChars, MaxLexed))
NextDiag ==
    \/ DiagAddCall
    \/ LexWithDiagsCall
    \/ CheckErrorsCall
    \/ CodeErrorFromCall
    \/ DisplayCall
SpecDiag == InitDiag /\ [][NextDiag]_vars

\* Texts of the tests of symbols.rs, "my_select" and "my_from", beside the
\* keyword spellings "", "as", "from", "select" and the texts "a", "at".
T_my_select == <<109, 121, 95>> \o S_select
T_my_from   == <<109, 121, 95>> \o S_from
SymbolTexts ==
    {S_empty, S_as, S_from, S_select, T_my_select, T_my_from,
     <<97>>, <<97, 116>>}

\* The named keyword constants of the excerpt.
SymbolConstants ==
    {KEYWORD__EMPTY_STRING, KEYWORD_as, KEYWORD_from, KEYWORD_select}

\* Storing a Symbol value in one of the two places.
Hold(slot, value, how, text) ==
    symbols' = [symbols EXCEPT ![slot] = value, !.slot = slot,
                               !.made = how, !.from = text,
                               !.compared = FALSE, !.eq = FALSE,
                               !.cmp = "none", !.hash_eq = FALSE]

\* Symbol::from(s)
SymbolFromCall ==
    /\ entry = "symbols"
    /\ \E slot \in {"a", "b"}, s \in SymbolTexts :
          Hold(slot, SymbolFrom(s), "from", s)
    /\ UNCHANGED <<src, pos, diags, tokens, status, entry, outcome, ast,
                   added, checked, rendered, par, session, wire>>

\* Symbol::default()
SymbolDefaultCall ==
    /\ entry = "symbols"
    /\ \E slot \in {"a", "b"} : Hold(slot, SymbolDefault, "default", <<>>)
    /\ UNCHANGED <<src, pos, diags, tokens, status, entry, outcome, ast,
                   added, checked, rendered, par, session, wire>>

\* Symbol::KEYWORD_...
SymbolConstantUse ==
    /\ entry = "symbols"
    /\ \E slot \in {"a", "b"}, k \in SymbolConstants :
          Hold(slot, k, "constant", SymbolDeref(k))
    /\ UNCHANGED <<src, pos, diags, tokens, status, entry, outcome, ast,
                   added, checked, rendered, par, session, wire>>

\* Symbol { inner: SymbolCase::Custom(s) }: the custom representation over
\* any text.  The type admits it over a keyword spelling too; the From
\* impls build it only when the keyword lookup misses.
SymbolCustomLiteral ==
    /\ entry = "symbols"
    /\ \E slot \in {"a", "b"}, s \in SymbolTexts :
          Hold(slot, SymCustom(s), "custom", s)
    /\ UNCHANGED <<src, pos, diags, tokens, status, entry, outcome, ast,
                   added, checked, rendered, par, session, wire>>

\* a == b, a.cmp(&b) and the hashes of a and b
SymbolCompareCall ==
    /\ entry = "symbols"
    /\ symbols.a # NoSymbol
    /\ symbols.b # NoSymbol
    /\ ~symbols.compared
    /\ symbols' = [symbols EXCEPT
                     !.compared = TRUE,
                     !.eq = SymbolEq(symbols.a, symbols.b),
                     !.cmp = SymbolCmp(symbols.a, symbols.b),
                     !.hash_eq = (SymbolHash(symbols.a) = SymbolHash(symbols.b))]
    /\ UNCHANGED <<src, pos, diags, tokens, status, entry, outcome, ast,
                   added, checked, rendered, par, session, wire>>

\* The Symbol type.
InitSymbol ==
    /\ src = <<>>
    /\ pos = 0
    /\ diags = <<>>
    /\ tokens = <<>>
    /\ status = "run"
    /\ entry = "symbols"
    /\ outcome = "none"
    /\ ast = <<>>
    /\ added = <<>>
    /\ checked = NotChecked
    /\ rendered = NotRendered
    /\ symbols = NoSymbols
    /\ par = NoThreads
    /\ session = NoSession
    /\ wire = NoWire
NextSymbol ==
    \/ SymbolFromCall
    \/ SymbolDefaultCall
    \/ SymbolConstantUse
    \/ SymbolCustomLiteral
    \/ SymbolCompareCall
SpecSymbol == InitSymbol /\ [][NextSymbol]_vars

\* A thread about to lex (lex_with_diags) or to parse (parse_stmt_with_diags)
\* its own text with its own cursor and accumulator.
Thread(kind, text) ==
    [kind |-> kind, src |-> text, pos |-> 0, diags |-> <<>>, tokens |-> <<>>,
     phase |-> "init", tok0 |-> Token(Kind("Unknown"), Range(0, 0)),
     nodes |-> <<>>]

\* The texts of the threads: "a 1", "$ a", "select 1", "1a ;"
ThreadTexts ==
    {<<97, 32, 49>>, <<36, 32, 97>>, S_select \o <<32, 49>>,
     <<49, 97, 32, 59>>}

\* A cursor shared by the threads: every thread reads the first one's.
FirstThreadCursor(threads, t) == threads[1].pos

\* The cursor of thread t's lexer: Lexer.pos of the Parser the thread owns.
ThreadCursor(threads, t) == threads[t].pos

\* The thread after its lexer's next_token yielded r, in the loop of
\* lex_with_diags.
ThreadAfterToken(th, r) ==
    IF r.panic THEN [th EXCEPT !.phase = "abort"]
    ELSE IF r.tok.kind.tag = "Eof"
    THEN [th EXCEPT !.phase = "done", !.pos = r.pos, !.diags = r.diags]
    ELSE [th EXCEPT !.pos = r.pos, !.diags = r.diags,
                    !.tokens = Append(th.tokens, r.tok)]

\* The thread after parse_stmt_toplevel fetched its first lookahead r.
ThreadAfterFetch(th, r) ==
    IF r.panic THEN [th EXCEPT !.phase = "abort"]
    ELSE [th EXCEPT !.phase = "fetched", !.pos = r.pos, !.diags = r.diags,
                    !.tok0 = r.tok]

\* The thread after parse_stmt and the Eof check of parse_stmt_toplevel
\* yielded st.
ThreadAfterStmt(th, st) ==
    IF st.abort THEN [th EXCEPT !.phase = "abort", !.diags = st.diags]
    ELSE [th EXCEPT !.phase = "done", !.pos = st.pos, !.diags = st.diags,
                    !.nodes = st.nodes]

\* Thread t takes the step that leaves it as th.
ThreadStep(t, th) ==
    par' = [par EXCEPT !.threads[t] = th, !.trace = Append(par.trace, t)]

\* One next_token call of a lexing thread.
ThreadNextToken ==
    /\ entry = "threads"
    /\ \E t \in 1..Len(par.threads) :
          /\ par.threads[t].kind = "lex"
          /\ par.threads[t].phase = "init"
          /\ ThreadStep(t, ThreadAfterToken(
                               par.threads[t],
                               NextToken(par.threads[t].src,
                                         ThreadCursor(par.threads, t),
                                         par.threads[t].diags)))
    /\ UNCHANGED <<src, pos, diags, tokens, status, entry, outcome, ast,
                   added, checked, rendered, symbols,
                   session, wire>>

\* The first next_token call of a parsing thread (parse_stmt_toplevel).
ThreadFetchFirst ==
    /\ entry = "threads"
    /\ \E t \in 1..Len(par.threads) :
          /\ par.threads[t].kind = "parse"
          /\ par.threads[t].phase = "init"
          /\ ThreadStep(t, ThreadAfterFetch(
                               par.threads[t],
                               NextToken(par.threads[t].src,
                                         ThreadCursor(par.threads, t),
                                         par.threads[t].diags)))
    /\ UNCHANGED <<src, pos, diags, tokens, status, entry, outcome, ast,
                   added, checked, rendered, symbols,
                   session, wire>>

\* parse_stmt and the Eof check of a parsing thread.
ThreadParseStmt ==
    /\ entry = "threads"
    /\ \E t \in 1..Len(par.threads) :
          /\ par.threads[t].kind = "parse"
          /\ par.threads[t].phase = "fetched"
          /\ ThreadStep(t, ThreadAfterStmt(
                               par.threads[t],
                               ParseStmtCheckEof(
                                   ParseStmt(par.threads[t].src,
                                             par.threads[t].tok0,
                                             ThreadCursor(par.threads, t),
                                             par.threads[t].diags))))
    /\ UNCHANGED <<src, pos, diags, tokens, status, entry, outcome, ast,
                   added, checked, rendered, symbols,
                   session, wire>>

\* Two threads, each with its own Parser or Lexer and accumulator.
InitThreads ==
    /\ src = <<>>
    /\ pos = 0
    /\ diags = <<>>
    /\ tokens = <<>>
    /\ status = "run"
    /\ entry = "threads"
    /\ outcome = "none"
    /\ ast = <<>>
    /\ added = <<>>
    /\ checked = NotChecked
    /\ rendered = NotRendered
    /\ symbols = NoSymbols
    /\ \E k1 \in {"lex", "parse"}, k2 \in {"lex", "parse"} :
          \E s1 \in ThreadTexts, s2 \in ThreadTexts :
             par = [threads |-> <<Thread(k1, s1), Thread(k2, s2)>>,
                    keywords |-> KEYWORDS, trace |-> <<>>]
    /\ session = NoSession
    /\ wire = NoWire
NextThreads == ThreadNextToken \/ ThreadFetchFirst \/ ThreadParseStmt
SpecThreads == InitThreads /\ [][NextThreads]_vars

\* The parser's entry points.
InitParse ==
    ParserNew(Texts(Pieces, MaxPieces) \cup {l.text : l \in StatementLists}
              \cup {StatementText(st) \o lo.text :
                      st \in Statements, lo \in Leftovers \cup UnknownLeftovers}
              \cup ProblemTexts
              \cup {StatementText(st) : st \in EdgeStatements})
NextParse ==
    \/ CallParseStmt
    \/ CallParseStmtMulti
    \/ CallParseStmtWithDiags
    \/ CallParseStmtMultiWithDiags
SpecParse == InitParse /\ [][NextParse]_vars

\* Every sequence of at most n elements of the set.
SeqsUpTo(set, n) == UNION { [1..k -> set] : k \in 0..n }

\* The column of SELECT 1, the same without a name, one with a zero byte in
\* its name, and one with other numbers.
Columns ==
    {ColumnOfSelect1,
     ColumnDescription(Bytes(<<>>), USize(0), 0, USize(23), 4, USize(0), 0),
     ColumnDescription(Bytes(<<97, 0>>), USize(0), 0, USize(23), 4, USize(0),
                       0),
     ColumnDescription(Bytes(<<97>>), USize(16384), 1, USize(25), U16_MAX,
                       U32_MAX, 1)}

\* Fields: NULL, "1", "", and values of u32::MAX - 9, u32::MAX - 1 and
\* u32::MAX bytes (the last one validate refuses).
Fields ==
    {None, Some(Bytes(S_1)), Some(Bytes(<<>>)),
     Some(BytesThen(<<120>>, Size(65535, 65525))),
     Some(BytesThen(<<120>>, Size(65535, 65533))),
     Some(BytesThen(<<120>>, Size(65535, 65534)))}

\* Command tags: "SELECT 1", "", one with a zero byte, one of u32::MAX - 4
\* bytes.
CommandTags ==
    {Bytes(S_SELECT_1), Bytes(<<>>), Bytes(<<83, 0>>),
     BytesThen(<<120>>, Size(65535, 65530))}

ServerMessages ==
    {AuthenticationOk}
    \cup {ReadyForQuery(s) :
             s \in {"Idle", "InTransaction", "InFailedTransaction"}}
    \cup {RowDescription(cs) : cs \in SeqsUpTo(Columns, MaxColumns)}
    \cup {DataRow(fs) : fs \in SeqsUpTo(Fields, MaxFields)}
    \cup {CommandComplete(tag) : tag \in CommandTags}

\* Whether the build checks arithmetic overflow.
Builds == {"debug", "release"}

\* msg.write_to(&mut dst) on an empty Vec<u8>
WriteToCall ==
    /\ entry = "write_to"
    /\ wire.phase = "idle"
    /\ wire' = [wire EXCEPT
                  !.phase = "written",
                  !.panic = WriteTo(wire.msg, wire.build).panic,
                  !.out = WriteTo(wire.msg, wire.build).out]
    /\ UNCHANGED <<src, pos, diags, tokens, status, entry, outcome, ast,
                   added, checked, rendered, symbols, par, session>>

\* A ServerMessage about to be written.
InitWire ==
    /\ src = <<>>
    /\ pos = 0
    /\ diags = <<>>
    /\ tokens = <<>>
    /\ status = "run"
    /\ entry = "write_to"
    /\ outcome = "none"
    /\ ast = <<>>
    /\ added = <<>>
    /\ checked = NotChecked
    /\ rendered = NotRendered
    /\ symbols = NoSymbols
    /\ par = NoThreads
    /\ session = NoSession
    /\ \E m \in ServerMessages, b \in Builds :
          wire = [phase |-> "idle", msg |-> m, build |-> b, panic |-> FALSE,
                  out |-> <<>>]
NextWire == WriteToCall
SpecWire == InitWire /\ [][NextWire]_vars

\* A frame: the length of the body plus four, big-endian, then the body;
\* for the messages after the startup, the type byte first.
Frame(body) == BE32(USize(Len(body) + 4)) \o body
TypedFrame(msg_type, body) == <<msg_type>> \o Frame(body)

\* What a client may send: SSLRequest (test_read_startup1), GSSENCRequest,
\* CancelRequest, a startup message of version 3.0 with user=u, one with a
\* parameter list that is not closed, a length below four, a lone pair of
\* bytes, Query "SELECT 1;", Query "SELECT 2;", a Query without its zero
\* byte, Terminate, and a message of an unknown type.
F_ssl        == Frame(<<4, 210, 22, 47>>)
F_gssenc     == Frame(<<4, 210, 22, 48>>)
F_cancel     == Frame(<<4, 210, 22, 46, 0, 0, 0, 1, 0, 0, 0, 2>>)
F_startup    == Frame(<<0, 3, 0, 0, 117, 115, 101, 114, 0, 117, 0, 0>>)
F_bad_params == Frame(<<0, 3, 0, 0, 117, 0>>)
F_short      == <<0, 0, 0, 3>>
F_cut        == <<0, 0>>
F_select_1   == TypedFrame(81, S_SELECT_1_semicolon \o <<0>>)
F_select_2   == TypedFrame(81, <<83, 69, 76, 69, 67, 84, 32, 50, 59, 0>>)
F_open_query == TypedFrame(81, <<97>>)
F_terminate  == TypedFrame(88, <<>>)
F_parse      == TypedFrame(80, <<>>)
Frames ==
    {F_ssl, F_gssenc, F_cancel, F_startup, F_bad_params, F_short, F_cut,
     F_select_1, F_select_2, F_open_query, F_terminate, F_parse}

\* One pass of the startup loop of the task.
StartupLoopStep ==
    /\ entry = "session"
    /\ session.phase = "startup"
    /\ session' = AfterStartupRead(session,
                                   ReadStartup(session.stream, session.rpos))
    /\ UNCHANGED <<src, pos, diags, tokens, status, entry, outcome, ast,
                   added, checked, rendered, symbols, par, wire>>

\* One pass of the query loop of the task.
QueryLoopStep ==
    /\ entry = "session"
    /\ session.phase = "ready"
    /\ session' = AfterClientRead(session,
                                  ReadClient(session.stream, session.rpos))
    /\ UNCHANGED <<src, pos, diags, tokens, status, entry, outcome, ast,
                   added, checked, rendered, symbols, par, wire>>

\* The task spawned for an accepted connection, with what the client will
\* have sent before it closes its end.
InitSession ==
    /\ src = <<>>
    /\ pos = 0
    /\ diags = <<>>
    /\ tokens = <<>>
    /\ status = "run"
    /\ entry = "session"
    /\ outcome = "none"
    /\ ast = <<>>
    /\ added = <<>>
    /\ checked = NotChecked
    /\ rendered = NotRendered
    /\ symbols = NoSymbols
    /\ par = NoThreads
    /\ wire = NoWire
    /\ \E stream \in Texts(Frames, MaxFrames), b \in Builds :
          session = [phase |-> "startup", stream |-> stream, rpos |-> 0,
                     log |-> <<>>, build |-> b]
NextSession == StartupLoopStep \/ QueryLoopStep
SpecSession == InitSession /\ [][NextSession]_vars

\* ------------------------------------------------------------------- claims

\* The i-th returned token came from a call that did not reach end of input.
IsLexeme(i) == tokens[i].kind.tag # "Eof"

\* The source bytes the i-th returned token covers.
Lexeme(i) == Slice(src, tokens[i].range.start, tokens[i].range.end)

\* The first source byte of the i-th returned token.
FirstByte(i) == src[tokens[i].range.start + 1]

EofReturned == \E i \in 1..Len(tokens) : ~IsLexeme(i)

\* A token of the TokenKind enum with a range inside the source.
WellFormedToken(t) ==
    /\ t.kind.tag \in TokenTags
    /\ 0 <= t.range.start
    /\ t.range.start <= t.range.end
    /\ t.range.end <= Len(src)

\* C1: for k >= 1 statements SELECT <integer literal> separated by
\* semicolons and ended by one trailing semicolon, parse_stmtmulti returns
\* normally with exactly those k statements and no diagnostics.
C1_TrailingSemicolonAccepted ==
    \A l \in StatementLists :
        (l.trailing /\ src = l.text /\ entry = "parse_stmtmulti")
            => (outcome = "ok" /\ ast = l.stmts /\ diags = <<>>)

\* C2: for k >= 1 statements SELECT <integer literal> separated by
\* semicolons with no trailing semicolon, parse_stmtmulti returns exactly
\* the k Select statements in source order, the i-th with the range of the
\* i-th SELECT keyword and its expression with the range of the i-th literal.
C2_StatementsInOrderWithRanges ==
    \A l \in StatementLists :
        (~l.trailing /\ src = l.text /\ entry = "parse_stmtmulti")
            => (outcome = "ok" /\ ast = l.stmts)

\* C3: every call of next_token returns a well-formed token and none aborts.
C3_NextTokenNeverAborts ==
    /\ status # "panic"
    /\ \A i \in 1..Len(tokens) : WellFormedToken(tokens[i])

\* C4: as long as Eof has not been returned the next call of next_token
\* returns, and when it returns a token other than Eof the cursor has
\* strictly increased; the cursor being bounded by the length of the
\* source, repeated calls therefore end with Eof.
C4_ProgressToEof ==
    (status = "run" /\ ~EofReturned)
        => LET r == NextToken(src, pos, diags)
           IN  /\ ~r.panic
               /\ r.tok.kind.tag # "Eof" => r.pos > pos

RestIsAsciiWhitespace(s, p) ==
    \A k \in (p + 1)..Len(s) : s[k] < 128 /\ IsWhitespace(s[k])

C6_SelectIntegerParses ==
    \A l \in StatementLists :
        (Len(l.stmts) = 1 /\ ~l.trailing /\ src = l.text
         /\ entry = "parse_stmt")
            => (outcome = "ok" /\ ast = l.stmts)

\* C7: an identifier run whose folded text is a keyword spelling is returned
\* as that keyword's own token kind (for select, the kind parse_stmt
\* requires), and any other identifier run as a generic Identifier token
\* carrying the custom Symbol of the folded text.
C7_KeywordsGetKeywordKind ==
    \A i \in 1..Len(tokens) :
        (IsLexeme(i) /\ IsIdentStart(FirstByte(i)))
            => LET folded == ToAsciiLowercase(Lexeme(i))
               IN  IF KeywordMapHas(folded)
                   THEN /\ tokens[i].kind.tag # "Identifier"
                        /\ folded = S_select => IsKeywordSelect(tokens[i].kind)
                   ELSE tokens[i].kind = KIdentifier(SymCustom(folded), FALSE)

\* The spellings that differ from w only in the case of ASCII letters.
SwapCase(b) ==
    IF b \in 65..90 THEN b + 32 ELSE IF b \in 97..122 THEN b - 32 ELSE b
CaseVariants(w) ==
    { [k \in 1..Len(w) |-> IF k \in S THEN SwapCase(w[k]) ELSE w[k]] :
        S \in SUBSET (1..Len(w)) }

\* C8: the text of an identifier token is its source bytes with A-Z
\* lowercased and every other byte, those >= 0x80 included, unchanged;
\* every spelling that differs only in ASCII case lexes to a token of the
\* identical kind and payload; and the range is that of the whole unfolded
\* run ("FÖO" gives the identifier "fÖo" over bytes 0..4).
C8_AsciiCaseFolding ==
    /\ \A i \in 1..Len(tokens) :
          tokens[i].kind.tag = "Identifier"
              => LET w    == Lexeme(i)
                     text == SymbolDeref(tokens[i].kind.name)
                     b    == tokens[i].range.end
                 IN  /\ Len(text) = Len(w)
                     /\ \A k \in 1..Len(w) :
                           text[k] = IF w[k] \in 65..90 THEN w[k] + 32 ELSE w[k]
                     /\ \A v \in CaseVariants(w) :
                           LET r == NextToken(v, 0, <<>>)
                           IN  /\ ~r.panic
                               /\ r.tok.kind = tokens[i].kind
                               /\ r.tok.range = Range(0, Len(v))
                     /\ w # <<>>
                     /\ IsIdentStart(w[1])
                     /\ \A k \in 1..Len(w) : IsIdentContinue(w[k])
                     /\ b = Len(src) \/ ~IsIdentContinue(src[b + 1])
    /\ (src = T_FOO_upper /\ tokens # <<>>)
          => tokens[1] = Token(KIdentifier(SymCustom(<<102, 195, 150, 111>>),
                                           FALSE),
                               Range(0, 4))

\* C8 witness: an identifier token over a run holding both an uppercase
\* ASCII letter and a byte >= 0x80.
C8_Witness ==
    \E i \in 1..Len(tokens) :
        /\ tokens[i].kind.tag = "Identifier"
        /\ \E k \in 1..Len(Lexeme(i)) : Lexeme(i)[k] \in 65..90
        /\ \E k \in 1..Len(Lexeme(i)) : Lexeme(i)[k] >= 128

\* The i-th returned token is an operator token.
IsOperatorToken(i) == IsLexeme(i) /\ IsSymbol(FirstByte(i))

\* C9: with r the end of the greedily extended run of an operator token
\* that starts at a, the token ends at r - 1 exactly when the run is longer
\* than one byte, ends in + or - and holds base symbols only, and at r
\* otherwise; the byte given back starts the next token ("=<+" gives
\* UserOp("=<"), Plus; "@+" gives UserOp("@+"); "=>+" gives FatArrow, Plus).
C9_TrailingSignTrim ==
    /\ \A i \in 1..Len(tokens) :
          IsOperatorToken(i)
              => LET a   == tokens[i].range.start
                     b   == tokens[i].range.end
                     r   == ExtendOperator(src, a + 1)
                     run == Slice(src, a, r)
                     trim == /\ r - a > 1
                             /\ run[Len(run)] \in {43, 45}
                             /\ \A k \in 1..Len(run) :
                                   run[k] \in {43, 45, 42, 47, 60, 62, 61}
                 IN  /\ b = IF trim THEN r - 1 ELSE r
                     /\ (trim /\ i < Len(tokens))
                           => /\ tokens[i + 1].range.start = b
                              /\ tokens[i + 1].kind.tag \in {"Plus", "Minus"}
    /\ (src = <<61, 60, 43>> /\ Len(tokens) >= 2)
          => /\ tokens[1] = Token(KUserOp(<<61, 60>>), Range(0, 2))
             /\ tokens[2] = Token(Kind("Plus"), Range(2, 3))
    /\ (src = <<64, 43>> /\ Len(tokens) >= 1)
          => tokens[1] = Token(KUserOp(<<64, 43>>), Range(0, 2))
    /\ (src = <<61, 62, 43>> /\ Len(tokens) >= 2)
          => /\ tokens[1] = Token(Kind("FatArrow"), Range(0, 2))
             /\ tokens[2] = Token(Kind("Plus"), Range(2, 3))

\* C9 witness: an operator token that ends one byte before its greedy run
\* does, followed by the token that starts with the byte given back.
C9_Witness ==
    \E i \in 1..Len(tokens) :
        /\ IsOperatorToken(i)
        /\ tokens[i].range.end
              = ExtendOperator(src, tokens[i].range.start + 1) - 1
        /\ i < Len(tokens)
        /\ tokens[i + 1].range.start = tokens[i].range.end

\* The first offset at or after a whose byte is not an operator byte.
RunLimit(a) ==
    IF \E q \in a..(Len(src) - 1) : ~IsSymbol(src[q + 1])
    THEN CHOOSE q \in a..(Len(src) - 1) :
            /\ ~IsSymbol(src[q + 1])
            /\ \A q2 \in a..(q - 1) : IsSymbol(src[q2 + 1])
    ELSE Len(src)

\* The offsets in the operator run starting at a where a comment marker,
\* "--" or "/*", begins.
MarkersIn(a) ==
    { k \in a..(RunLimit(a) - 2) :
        \/ (src[k + 1] = 45 /\ src[k + 2] = 45)
        \/ (src[k + 1] = 47 /\ src[k + 2] = 42) }

Least(S) == CHOOSE x \in S : \A y \in S : x <= y

\* C10: an operator token never contains "--" or "/*"; its run extends
\* over all the operator bytes up to the first comment marker in them, if
\* there is one (the token ends there, or one byte earlier when a trailing
\* sign is given back), and the marker stays unconsumed: the cursor after
\* the call is not beyond the marker's first byte.
C10_RunStopsBeforeCommentMarker ==
    \A i \in 1..Len(tokens) :
        IsOperatorToken(i)
            => LET a   == tokens[i].range.start
                   b   == tokens[i].range.end
                   end == IF MarkersIn(a) # {} THEN Least(MarkersIn(a))
                          ELSE RunLimit(a)
                   after == IF i < Len(tokens) THEN tokens[i + 1].range.start
                            ELSE pos
               IN  /\ \A k \in a..(b - 2) :
                         /\ ~(src[k + 1] = 45 /\ src[k + 2] = 45)
                         /\ ~(src[k + 1] = 47 /\ src[k + 2] = 42)
                   /\ b \in {end - 1, end}
                   /\ a < b
                   /\ MarkersIn(a) # {} => after <= Least(MarkersIn(a))

\* C10 witness: an operator token whose run was cut at a comment marker.
C10_Witness ==
    \E i \in 1..Len(tokens) :
        /\ IsOperatorToken(i)
        /\ MarkersIn(tokens[i].range.start) # {}
        /\ tokens[i].range.end = Least(MarkersIn(tokens[i].range.start))

\* The built-in operator spellings with the kinds they name:
\* ^ * / % + - = => <> != < > <= >=
BuiltInOperators ==
    {[text |-> <<94>>, tag |-> "Caret"],
     [text |-> <<42>>, tag |-> "Asterisk"],
     [text |-> <<47>>, tag |-> "Slash"],
     [text |-> <<37>>, tag |-> "Percent"],
     [text |-> <<43>>, tag |-> "Plus"],
     [text |-> <<45>>, tag |-> "Minus"],
     [text |-> <<61>>, tag |-> "Eq"],
     [text |-> <<61, 62>>, tag |-> "FatArrow"],
     [text |-> <<60, 62>>, tag |-> "Neq"],
     [text |-> <<33, 61>>, tag |-> "Neq"],
     [text |-> <<60>>, tag |-> "Lt"],
     [text |-> <<62>>, tag |-> "Gt"],
     [text |-> <<60, 61>>, tag |-> "Le"],
     [text |-> <<62, 61>>, tag |-> "Ge"]}

\* C11: an operator token has a built-in kind exactly when the source bytes
\* of its range are one of ^ * / % + - = => <> != < > <= >= (<> and !=
\* both giving Neq), the kind being the one the spelling names; any other
\* operator token is a UserOp whose payload is the source bytes of its range.
C11_OperatorClassification ==
    \A i \in 1..Len(tokens) :
        IsOperatorToken(i)
            => LET w == Lexeme(i)
               IN  IF \E e \in BuiltInOperators : e.text = w
                   THEN \E e \in BuiltInOperators :
                           e.text = w /\ tokens[i].kind = Kind(e.tag)
                   ELSE tokens[i].kind = KUserOp(w)

\* C11 witness: both spellings of not-equal and a user-defined operator
\* have been returned in one run.
C11_Witness ==
    /\ \E i \in 1..Len(tokens) :
          IsOperatorToken(i) /\ Lexeme(i) = <<60, 62>>
          /\ tokens[i].kind.tag = "Neq"
    /\ \E i \in 1..Len(tokens) :
          IsOperatorToken(i) /\ Lexeme(i) = <<33, 61>>
          /\ tokens[i].kind.tag = "Neq"
    /\ \E i \in 1..Len(tokens) :
          IsOperatorToken(i) /\ tokens[i].kind.tag = "UserOp"
          /\ tokens[i].kind.text = Lexeme(i)

\* The end of the run of letters, digits, _, $ and bytes >= 0x80 that
\* starts at offset a.
WordEnd(a) ==
    Least({q \in a..Len(src) :
             /\ \A k \in (a + 1)..q :
                   \/ src[k] \in 48..57 \/ src[k] \in 65..90
                   \/ src[k] \in 97..122 \/ src[k] \in {95, 36}
                   \/ src[k] >= 128
             /\ q = Len(src)
                \/ ~(\/ src[q + 1] \in 48..57 \/ src[q + 1] \in 65..90
                     \/ src[q + 1] \in 97..122 \/ src[q + 1] \in {95, 36}
                     \/ src[q + 1] >= 128)})

\* A text of ASCII digits and underscores only.
DigitsAndUnderscores(w) == \A k \in 1..Len(w) : w[k] \in 48..57 \/ w[k] = 95

\* The base-10 value of a text of digits and underscores, the underscores
\* counting for nothing.
RECURSIVE DecimalValue(_)
DecimalValue(w) ==
    IF w = <<>> THEN 0
    ELSE IF w[Len(w)] = 95 THEN DecimalValue(SubSeq(w, 1, Len(w) - 1))
    ELSE 10 * DecimalValue(SubSeq(w, 1, Len(w) - 1)) + (w[Len(w)] - 48)

\* The number an Integer token's value stands for.
RECURSIVE ValueOf(_)
ValueOf(v) ==
    IF v = <<>> THEN 0
    ELSE 10 * ValueOf(SubSeq(v, 1, Len(v) - 1)) + v[Len(v)]

\* Spellings of the same number: underscores dropped, an underscore added,
\* leading zeros added.
SameNumberSpellings(w) ==
    {SelectSeq(w, LAMBDA b : b # 95), w \o <<95>>, <<48>> \o w,
     <<48, 95, 48>> \o w, <<w[1], 95>> \o Tail(w)}

Occurrences(diagnostic) ==
    Cardinality({k \in 1..Len(diags) : diags[k] = diagnostic})

\* C13: a digit-started run that holds a byte other than a digit or an
\* underscore (a letter, $, a byte >= 0x80) is returned as exactly one
\* Unknown token with exactly one UnknownToken diagnostic, both over the
\* whole run, and the cursor is left at the byte after the run.
C13_MalformedNumberIsUnknown ==
    /\ \A i \in 1..Len(tokens) :
          (IsLexeme(i) /\ FirstByte(i) \in 48..57)
              => LET a == tokens[i].range.start
                     w == Slice(src, a, WordEnd(a))
                 IN  ~DigitsAndUnderscores(w)
                       => /\ tokens[i]
                               = Token(Kind("Unknown"), Range(a, WordEnd(a)))
                          /\ Occurrences(UnknownToken(Range(a, WordEnd(a)))) = 1
                          /\ IF i < Len(tokens)
                             THEN tokens[i + 1].range.start >= WordEnd(a)
                             ELSE pos = WordEnd(a)
    /\ (status = "run" /\ pos < Len(src) /\ src[pos + 1] \in 48..57
        /\ ~DigitsAndUnderscores(Slice(src, pos, WordEnd(pos))))
          => NextToken(src, pos, diags)
               = Returned(Token(Kind("Unknown"), Range(pos, WordEnd(pos))),
                          WordEnd(pos),
                          Append(diags, UnknownToken(Range(pos, WordEnd(pos)))))

\* C13 witness: an Unknown token over a digit-started run of several bytes,
\* one of them >= 0x80, with its diagnostic recorded.
C13_Witness ==
    \E i \in 1..Len(tokens) :
        /\ tokens[i].kind.tag = "Unknown"
        /\ FirstByte(i) \in 48..57
        /\ \E k \in 1..Len(Lexeme(i)) : Lexeme(i)[k] >= 128
        /\ Occurrences(UnknownToken(tokens[i].range)) = 1

\* The ASCII bytes that start a token of some class or are whitespace:
\* digits, letters, underscore, punctuation, operator bytes, whitespace.
ClassedAscii ==
    (48..57) \cup (65..90) \cup (97..122) \cup {95}
    \cup {40, 41, 91, 93, 123, 125, 46, 44, 58, 59}
    \cup {43, 45, 42, 47, 60, 62, 61, 126, 33, 64, 35, 37, 94, 38, 124, 96, 63}
    \cup {9, 10, 11, 12, 13, 32}

\* A byte that belongs to no lexical class (bytes >= 0x80 start identifiers).
NoClass(b) == b \in (0..127) \ ClassedAscii

\* C14: when the byte at the start of a token belongs to no lexical class,
\* next_token consumes that one byte, appends one UnknownToken diagnostic
\* over it, returns an Unknown token with the same range, and the next call
\* resumes at the following byte.
C14_UnknownByteConsumedAlone ==
    /\ \A i \in 1..Len(tokens) :
          (IsLexeme(i) /\ NoClass(FirstByte(i)))
              => LET a == tokens[i].range.start
                 IN  /\ tokens[i] = Token(Kind("Unknown"), Range(a, a + 1))
                     /\ Occurrences(UnknownToken(Range(a, a + 1))) = 1
                     /\ IF i < Len(tokens)
                        THEN tokens[i + 1].range.start >= a + 1
                        ELSE pos = a + 1
    /\ (status = "run" /\ pos < Len(src) /\ NoClass(src[pos + 1]))
          => NextToken(src, pos, diags)
               = Returned(Token(Kind("Unknown"), Range(pos, pos + 1)), pos + 1,
                          Append(diags, UnknownToken(Range(pos, pos + 1))))

\* C14 witness: an Unknown token over one unclassed byte, and the next
\* token starting at the byte that follows it.
C14_Witness ==
    \E i \in 1..Len(tokens) :
        /\ IsLexeme(i)
        /\ NoClass(FirstByte(i))
        /\ tokens[i].kind.tag = "Unknown"
        /\ i < Len(tokens)
        /\ IsLexeme(i + 1)
        /\ tokens[i + 1].range.start = tokens[i].range.end
        /\ Len(diags) >= 1

\* A text made of whitespace code points only: the ASCII ones, U+00A0
\* (bytes C2 A0) and U+3000 (bytes E3 80 80).
RECURSIVE IsWhitespaceText(_)
IsWhitespaceText(w) ==
    \/ w = <<>>
    \/ /\ w[1] \in {9, 10, 11, 12, 13, 32}
       /\ IsWhitespaceText(Tail(w))
    \/ /\ Len(w) >= 2
       /\ SubSeq(w, 1, 2) = <<194, 160>>
       /\ IsWhitespaceText(SubSeq(w, 3, Len(w)))
    \/ /\ Len(w) >= 3
       /\ SubSeq(w, 1, 3) = <<227, 128, 128>>
       /\ IsWhitespaceText(SubSeq(w, 4, Len(w)))

\* C15: on an input of whitespace code points only, multi-byte ones
\* included, no call aborts, no token other than Eof is returned and the
\* accumulator stays empty.
C15_WhitespaceOnlyLexesToNothing ==
    IsWhitespaceText(src)
        => /\ status # "panic"
           /\ \A i \in 1..Len(tokens) : ~IsLexeme(i)
           /\ diags = <<>>

\* C16: the accumulator holds exactly the diagnostics handed to add, in
\* call order, and has_errors is true exactly when at least one was added.
C16_AccumulatorKeepsInsertionOrder ==
    /\ diags = added
    /\ HasErrors(diags) <=> Len(added) >= 1

\* C16 witness: three adds, not all of the same diagnostic, one of them
\* made after the lexer added its own.
C16_Witness ==
    /\ entry = "diag"
    /\ Len(added) >= 3
    /\ added[1] # added[2]
    /\ status = "lexed"
    /\ \E i \in 1..Len(tokens) : tokens[i].kind.tag = "Unknown"
    /\ added[Len(added)] \notin {UnknownToken(tokens[i].range) :
                                    i \in 1..Len(tokens)}

\* C17: check_errors returns Ok, with the empty accumulator, exactly when
\* no diagnostic was added, and otherwise the terminal error carrying the
\* accumulated diagnostics in their order; an error it returns is never
\* empty.
C17_CheckErrorsOkIffEmpty ==
    checked.by = "check_errors"
        => /\ checked.tag \in {"Ok", "Err"}
           /\ checked.tag = "Ok" <=> added = <<>>
           /\ checked.tag = "Ok" => checked.diagnostics = <<>>
           /\ checked.tag = "Err"
                 => /\ checked.diagnostics = added
                    /\ Len(checked.diagnostics) >= 1

\* C17 witness: check_errors has returned an error holding two different
\* diagnostics.
C17_Witness ==
    /\ checked.by = "check_errors"
    /\ checked.tag = "Err"
    /\ Len(checked.diagnostics) >= 2
    /\ checked.diagnostics[1] # checked.diagnostics[2]

\* The decimal numeral of a natural number.
DigitChar == <<"0", "1", "2", "3", "4", "5", "6", "7", "8", "9">>
RECURSIVE Numeral(_)
Numeral(n) ==
    IF n < 10 THEN DigitChar[n + 1]
    ELSE Numeral(n \div 10) \o DigitChar[(n % 10) + 1]

\* The message of each kind of diagnostic.
MessageOf(diagnostic) ==
    CASE diagnostic.variant = "UnknownToken"  -> "unknown token"
      [] diagnostic.variant = "UnexpectedEof" -> "unexpected end of input"

\* C18: the rendering of a terminal error with n diagnostics is, for n = 0,
\* the line "No errors"; for n = 1, the diagnostic's message alone; for
\* n > 1, the line "<n> errors found:" followed by the n messages, one per
\* line, in order.  The text of two unscannable bytes renders as
\* "2 errors found:" followed by both messages.
C18_RenderingByCount ==
    /\ (checked.tag = "Err" /\ rendered = NotRendered) => ENABLED DisplayCall
    /\ rendered.done
          => LET e == checked.diagnostics
                 n == Len(e)
             IN  /\ n = 0 => rendered.lines = <<"No errors">>
                 /\ n = 1 => rendered.lines = <<MessageOf(e[1])>>
                 /\ n > 1
                      => /\ Len(rendered.lines) = n + 1
                         /\ rendered.lines[1] = Numeral(n) \o " errors found:"
                         /\ \A k \in 1..n :
                               rendered.lines[k + 1] = MessageOf(e[k])
    /\ (src = <<34, 34>> /\ status = "lexed" /\ Len(added) = 2 /\ rendered.done)
          => rendered.lines
               = <<"2 errors found:", "unknown token", "unknown token">>

\* C18 witness: an error of three diagnostics of both kinds has been
\* rendered.
C18_Witness ==
    /\ rendered.done
    /\ Len(checked.diagnostics) = 3
    /\ \E k \in 1..3 : checked.diagnostics[k].variant = "UnknownToken"
    /\ \E k \in 1..3 : checked.diagnostics[k].variant = "UnexpectedEof"

\* C19: parse_stmt_with_diags on SELECT <integer literal> followed by one
\* more token returns the statement and leaves exactly one UnexpectedEof
\* diagnostic, with the range of that leftover token, in the accumulator;
\* with nothing after the statement it returns the statement and adds no
\* diagnostic.
C19_LeftoverTokenReported ==
    \A st \in Statements :
        entry = "parse_stmt_with_diags"
            => /\ src = StatementText(st)
                  => /\ outcome = "returned"
                     /\ ast = <<StatementNode(st, 0)>>
                     /\ diags = added
               /\ \A lo \in Leftovers :
                     src = StatementText(st) \o lo.text
                         => /\ outcome = "returned"
                            /\ ast = <<StatementNode(st, 0)>>
                            /\ diags = added \o <<UnexpectedEof(
                                           Range(Len(StatementText(st)) + lo.skip,
                                                 Len(src)))>>

KeywordTable ==
    {[text |-> <<>>, id |-> 0],
     [text |-> <<97, 115>>, id |-> 19],
     [text |-> <<102, 114, 111, 109>>, id |-> 159],
     [text |-> <<115, 101, 108, 101, 99, 116>>, id |-> 381]}

LeftoverRange(st, lo) ==
    Range(Len(StatementText(st)) + lo.skip,
          Len(StatementText(st)) + Len(lo.text))

\* C23: parse_stmt and parse_stmtmulti return Ok with the AST exactly when
\* no diagnostic was appended during the parse and Err with all the
\* diagnostics otherwise: Ok for SELECT <integer literal>, Err holding the
\* one UnexpectedEof diagnostic when a token is left after it; an AST never
\* comes with a diagnostic.
C23_OkIffNoDiagnostics ==
    /\ outcome = "ok" => diags = <<>>
    /\ outcome = "err" => (diags # <<>> /\ ast = <<>>)
    /\ \A st \in Statements :
          /\ (entry \in {"parse_stmt", "parse_stmtmulti"}
              /\ src = StatementText(st))
                => (outcome = "ok" /\ ast = <<StatementNode(st, 0)>>)
          /\ \A lo \in Leftovers :
                (entry = "parse_stmt" /\ src = StatementText(st) \o lo.text)
                    => /\ outcome = "err"
                       /\ diags = <<UnexpectedEof(LeftoverRange(st, lo))>>

C25_EveryLexicalProblemReported ==
    (entry = "parse_stmt" /\ src \in ProblemTexts)
        => /\ outcome = "err"
           /\ \A k \in 1..Len(LexWithDiags(src, <<>>).diags) :
                 \E j \in 1..Len(diags) :
                    diags[j] = LexWithDiags(src, <<>>).diags[k]

\* C26: when the token after a statement is neither a semicolon nor Eof,
\* the sequence entry points abort, returning neither statements nor
\* diagnostics, while parse-one-statement returns the statement and
\* reports the token as a diagnostic.
C26_SequenceAbortsOnLeftover ==
    \A st \in Statements :
        \A lo \in Leftovers :
            (lo.text # <<59>> /\ src = StatementText(st) \o lo.text)
                => /\ entry \in {"parse_stmtmulti", "parse_stmtmulti_with_diags"}
                      => (outcome = "abort" /\ ast = <<>>)
                   /\ entry = "parse_stmt_with_diags"
                      => /\ outcome = "returned"
                         /\ ast = <<StatementNode(st, 0)>>
                         /\ diags = added
                                \o <<UnexpectedEof(LeftoverRange(st, lo))>>

\* The tokens of the text, lexed through to Eof.
AllTokens == LexWithDiags(src, <<>>).tokens

\* The text starts with a token other than the SELECT keyword (or has no
\* token at all), or the token after the SELECT keyword is not an integer
\* literal (or is missing).
CannotStart ==
    \/ AllTokens = <<>>
    \/ ~(/\ AllTokens[1].kind.tag = "Identifier"
         /\ AllTokens[1].kind.name = [case |-> "Keyword", id |-> 381,
                                      s |-> <<>>])
    \/ Len(AllTokens) = 1
    \/ AllTokens[2].kind.tag # "Integer"

C29_ThreadsDoNotInterfere ==
    /\ par.keywords = KEYWORDS
    /\ \A t \in 1..Len(par.threads) :
          LET th == par.threads[t]
          IN  th.phase \in {"done", "abort"}
                => IF th.kind = "lex"
                   THEN /\ (th.phase = "abort")
                              = LexWithDiags(th.src, <<>>).panic
                        /\ th.phase = "done"
                              => /\ th.tokens
                                      = LexWithDiags(th.src, <<>>).tokens
                                 /\ th.diags = LexWithDiags(th.src, <<>>).diags
                   ELSE /\ (th.phase = "abort")
                              = ParseStmtToplevel(th.src, <<>>).abort
                        /\ th.nodes = ParseStmtToplevel(th.src, <<>>).nodes
                        /\ th.diags = ParseStmtToplevel(th.src, <<>>).diags

\* C29 witness: two threads on different texts have both ended, their
\* steps having alternated, one of them with a diagnostic.
C29_Witness ==
    /\ Len(par.threads) = 2
    /\ par.threads[1].phase \in {"done", "abort"}
    /\ par.threads[2].phase \in {"done", "abort"}
    /\ par.threads[1].src # par.threads[2].src
    /\ par.threads[1].diags # <<>>
    /\ Len(par.trace) >= 4
    /\ SubSeq(par.trace, 1, 4) = <<1, 2, 1, 2>>

\* The first byte at offset p of s starts an operator: the last arm but one
\* of the match in next_token.
StartsOperator(s, p) ==
    /\ p < Len(s)
    /\ IsSymbol(s[p + 1])
    /\ ~IsIdentStart(s[p + 1])
    /\ ~IsDigit(s[p + 1])
    /\ ~IsPunctuation(s[p + 1])

\* The text s has -- or /* at offset p.
BeginsWithComment(s, p) ==
    /\ p + 1 < Len(s)
    /\ \/ s[p + 1] = 45 /\ s[p + 2] = 45
       \/ s[p + 1] = 47 /\ s[p + 2] = 42

\* C30: when the whitespace is skipped, the call aborts on an empty operator
\* run exactly when the text at the cursor begins with -- or /*, the abort
\* yields no token and leaves the diagnostics as they were, and any other
\* operator start yields a token of at least one byte starting there.
C30_EmptyOperatorRunIffComment ==
    (status = "run" /\ ~SkipWhitespace(src, pos).panic)
      => LET start == SkipWhitespace(src, pos).pos
             r     == NextToken(src, pos, diags)
         IN  /\ (StartsOperator(src, start)
                   /\ ExtendOperator(src, start + 1) = start)
                  <=> BeginsWithComment(src, start)
             /\ BeginsWithComment(src, start)
                  => /\ r.panic
                     /\ r.diags = diags
             /\ (StartsOperator(src, start) /\ ~BeginsWithComment(src, start))
                  => /\ ~r.panic
                     /\ r.tok.range.start = start
                     /\ r.tok.range.end >= start + 1
                     /\ r.pos = r.tok.range.end

\* C30 witness: after a token and a blank the call has aborted on /* with
\* the tokens and diagnostics of before.
C30_Witness ==
    /\ status = "panic"
    /\ Len(tokens) >= 1
    /\ ~SkipWhitespace(src, pos).panic
    /\ SkipWhitespace(src, pos).pos > pos
    /\ BeginsWithComment(src, SkipWhitespace(src, pos).pos)
    /\ src[SkipWhitespace(src, pos).pos + 1] = 47
    /\ diags = added

\* The underscore at index k of the text w stands between two digits.
IsInternalSeparator(w, k) ==
    /\ 1 < k
    /\ k < Len(w)
    /\ w[k - 1] \in 48..57
    /\ w[k + 1] \in 48..57

\* C31: an Integer token covers a digit-started run only when every
\* underscore of the run stands between two digits; 1_ and 1__2 give no
\* Integer token.
C31_UnderscoresOnlyInternal ==
    \A i \in 1..Len(tokens) :
        tokens[i].kind.tag = "Integer"
          => \A k \in 1..Len(Lexeme(i)) :
                Lexeme(i)[k] = 95 => IsInternalSeparator(Lexeme(i), k)

\* The spellings of the punctuation tokens, by token kind.
PunctuationSpellings ==
    {<<"LParen", <<40>>>>, <<"RParen", <<41>>>>, <<"LBracket", <<91>>>>,
     <<"RBracket", <<93>>>>, <<"LBrace", <<123>>>>, <<"RBrace", <<125>>>>,
     <<"Dot", <<46>>>>, <<"DotDot", <<46, 46>>>>, <<"Comma", <<44>>>>,
     <<"Colon", <<58>>>>, <<"ColonColon", <<58, 58>>>>,
     <<"ColonEq", <<58, 61>>>>, <<"Semicolon", <<59>>>>}

\* The punctuation spellings that the source has at offset a.
SpellingsAt(a) ==
    {sp \in PunctuationSpellings :
        /\ a + Len(sp[2]) <= Len(src)
        /\ Slice(src, a, a + Len(sp[2])) = sp[2]}

\* The longest of the punctuation spellings that the source has at offset a.
LongestSpellingAt(a) ==
    CHOOSE sp \in SpellingsAt(a) :
        \A other \in SpellingsAt(a) : Len(other[2]) <= Len(sp[2])

\* C32: a token that starts with a punctuation byte is the longest
\* punctuation spelling found there, of one or two bytes; ... gives DotDot
\* then Dot and ::: gives ColonColon then Colon; a call that starts on a
\* punctuation byte appends no diagnostic.
C32_PunctuationLongestMatch ==
    /\ \A i \in 1..Len(tokens) :
          (IsLexeme(i) /\ SpellingsAt(tokens[i].range.start) # {})
              => LET a  == tokens[i].range.start
                     sp == LongestSpellingAt(a)
                 IN  tokens[i] = Token(Kind(sp[1]), Range(a, a + Len(sp[2])))
    /\ (src = T_dot_dot_dot /\ Len(tokens) >= 2)
          => /\ tokens[1] = Token(Kind("DotDot"), Range(0, 2))
             /\ tokens[2] = Token(Kind("Dot"), Range(2, 3))
    /\ (src = T_colon_colon_colon /\ Len(tokens) >= 2)
          => /\ tokens[1] = Token(Kind("ColonColon"), Range(0, 2))
             /\ tokens[2] = Token(Kind("Colon"), Range(2, 3))
    /\ (status = "run" /\ ~SkipWhitespace(src, pos).panic
        /\ SpellingsAt(SkipWhitespace(src, pos).pos) # {})
          => /\ ~NextToken(src, pos, diags).panic
             /\ NextToken(src, pos, diags).diags = diags

\* C32 witness: ::= has been lexed to ColonColon then Eq, after which the
\* end was reached with no diagnostic.
C32_Witness ==
    /\ src = T_colon_colon_eq
    /\ Len(tokens) = 3
    /\ tokens[1].kind.tag = "ColonColon"
    /\ tokens[2] = Token(Kind("Eq"), Range(2, 3))
    /\ tokens[3].kind.tag = "Eof"
    /\ diags = <<>>

\* The Unknown tokens returned so far, in the order of their return.
UnknownTokens == SelectSeq(tokens, LAMBDA t : t.kind.tag = "Unknown")

\* C33: the diagnostics of the accumulator are the UnknownToken diagnostics
\* of the Unknown tokens returned so far, one for one, in the same order and
\* with the same ranges, and they follow one another in the source.
C33_UnknownTokensMatchDiagnostics ==
    /\ Len(diags) = Len(UnknownTokens)
    /\ \A k \in 1..Len(diags) : diags[k] = UnknownToken(UnknownTokens[k].range)
    /\ \A k \in 1..Len(diags) : \A l \in 1..Len(diags) :
          k < l => diags[k].range.end <= diags[l].range.start

\* C33 witness: the end was reached after two Unknown tokens, one over a
\* malformed numeral and one over a single unknown byte, among other tokens.
C33_Witness ==
    /\ EofReturned
    /\ Len(UnknownTokens) = 2
    /\ Len(diags) = 2
    /\ \E i \in 1..Len(tokens) :
          /\ tokens[i].kind.tag = "Unknown"
          /\ FirstByte(i) \in 48..57
          /\ tokens[i].range.end - tokens[i].range.start >= 2
    /\ \E i \in 1..Len(tokens) :
          /\ tokens[i].kind.tag = "Unknown"
          /\ FirstByte(i) \in {34, 36}

\* The source bytes at offsets a .. b - 1 are all whitespace.
GapIsWhitespace(a, b) == \A k \in (a + 1)..b : IsWhitespace(src[k])

\* C34: every returned token has 0 <= start <= end <= length of the source,
\* every token but Eof has start < end, a token starts at or after the end
\* of the one before it, and the bytes before the first token and between
\* two tokens are whitespace.
C34_TokenRangesOrdered ==
    \A i \in 1..Len(tokens) :
        /\ 0 <= tokens[i].range.start
        /\ tokens[i].range.start <= tokens[i].range.end
        /\ tokens[i].range.end <= Len(src)
        /\ IsLexeme(i) => tokens[i].range.start < tokens[i].range.end
        /\ IF i = 1
           THEN GapIsWhitespace(0, tokens[1].range.start)
           ELSE /\ tokens[i - 1].range.end <= tokens[i].range.start
                /\ GapIsWhitespace(tokens[i - 1].range.end,
                                   tokens[i].range.start)

\* C34 witness: blanks before the first token and between the first two,
\* then the end of the text, with blanks left before it.
C34_Witness ==
    /\ Len(tokens) = 3
    /\ tokens[1].range.start > 0
    /\ tokens[2].range.start > tokens[1].range.end
    /\ tokens[3].kind.tag = "Eof"
    /\ IsLexeme(1)
    /\ IsLexeme(2)

\* The text w is longer than one byte, holds base symbols only and ends in
\* + or -.
EndsInSignWithoutExtra(w) ==
    /\ Len(w) > 1
    /\ \A k \in 1..Len(w) : w[k] \in {43, 45, 42, 47, 60, 62, 61}
    /\ w[Len(w)] \in {43, 45}

\* C35: no operator token returned by the lexer is longer than one byte,
\* made of base symbols only and ending in + or -, also on runs with
\* several trailing signs such as =++.
C35_NoTrailingSignWithoutExtraSymbol ==
    \A i \in 1..Len(tokens) :
        (IsLexeme(i) /\ IsSymbol(FirstByte(i)))
            => ~EndsInSignWithoutExtra(Lexeme(i))

\* A Symbol in canonical form: no custom variant over a keyword spelling,
\* and a keyword id below ID_MAX with a spelling that the table maps back to
\* the id.
Canonical(v) ==
    /\ v.case \in {"Keyword", "Custom"}
    /\ v.case = "Custom" => v.s \notin {k.text : k \in KeywordTable}
    /\ v.case = "Keyword"
          => /\ v.id < ID_MAX
             /\ v.id \in DOMAIN KEYWORDS
             /\ \E k \in KeywordTable : k.id = v.id /\ k.text = SymbolDeref(v)
             /\ KeywordMapHas(SymbolDeref(v))
             /\ KeywordMapGet(SymbolDeref(v)) = v.id

BigEndianValue(h) == [hi |-> h[1] * 256 + h[2], lo |-> h[3] * 256 + h[4]]

\* The number of bytes of a sequence of write_all calls.
RECURSIVE BytesIn(_)
BytesIn(out) ==
    IF out = <<>> THEN [hi |-> 0, lo |-> 0]
    ELSE SizeAdd(SizeAdd([hi |-> 0, lo |-> Len(Head(out).head)],
                         Head(out).fill),
                 BytesIn(Tail(out)))

\* The number of bytes written after the length field.
PayloadWritten == BytesIn(SubSeq(wire.out, 3, Len(wire.out)))

\* The message type bytes: R Z T D C
TypeByteOf(tag) ==
    CASE tag = "AuthenticationOk" -> 82
      [] tag = "ReadyForQuery"    -> 90
      [] tag = "RowDescription"   -> 84
      [] tag = "DataRow"          -> 68
      [] tag = "CommandComplete"  -> 67

\* C39: for a message that validate admits, write_to writes the type byte,
\* then four bytes that hold, big-endian, 4 plus the number of payload bytes
\* written after them, which is byte_len; AuthenticationOk is R, 8 and four
\* zero bytes, ReadyForQuery(Idle) is Z, 5 and I.
C39_LengthFieldCountsPayload ==
    (wire.phase = "written" /\ Validate(wire.msg))
      => /\ ~wire.panic
         /\ Len(wire.out) >= 3
         /\ wire.out[1].head = <<TypeByteOf(wire.msg.tag)>>
         /\ wire.out[1].fill = [hi |-> 0, lo |-> 0]
         /\ wire.out[2].fill = [hi |-> 0, lo |-> 0]
         /\ Len(wire.out[2].head) = 4
         /\ BigEndianValue(wire.out[2].head)
               = SizeAdd(USize(4), PayloadWritten)
         /\ ByteLen(wire.msg) = PayloadWritten
         /\ wire.msg.tag = "AuthenticationOk"
               => Flatten([k \in 1..Len(wire.out) |-> wire.out[k].head])
                     = <<82, 0, 0, 0, 8, 0, 0, 0, 0>>
         /\ (wire.msg.tag = "ReadyForQuery" /\ wire.msg.status = "Idle")
               => Flatten([k \in 1..Len(wire.out) |-> wire.out[k].head])
                     = <<90, 0, 0, 0, 5, 73>>

\* The events of the session's log with the given call and tag.
EventsOf(ev, tag) ==
    {i \in 1..Len(session.log) :
        session.log[i].ev = ev /\ session.log[i].tag = tag}

\* The reads of the query loop.
MessageReads ==
    {i \in 1..Len(session.log) : session.log[i].ev = "read_message"}

EventsAfterRead(i) ==
    {j \in (i + 1)..Len(session.log) :
        \A k \in (i + 1)..j : session.log[k].ev # "read_message"}

\* C38: each Query read by the query loop is followed, before the next
\* read, by its response messages (RowDescription, DataRow, CommandComplete
\* for SELECT 1;) and then exactly one ReadyForQuery(Idle); after a
\* Terminate nothing is written and the session is over; after a read or
\* decode error nothing is written either.
C38_QueryAnsweredBeforeNextRead ==
    LET log == session.log
    IN  \A i \in MessageReads :
           /\ log[i].tag = "Query"
                 => /\ Cardinality({j \in EventsAfterRead(i) :
                                       log[j].tag = "ReadyForQuery"}) = 1
                    /\ \A j \in EventsAfterRead(i) :
                          log[j].tag = "ReadyForQuery"
                              => /\ log[j].bytes = <<90, 0, 0, 0, 5, 73>>
                                 /\ \A k \in EventsAfterRead(i) :
                                       (k > j) => log[k].ev = "flush"
                    /\ log[i].bytes = S_SELECT_1_semicolon
                          => /\ i + 4 <= Len(log)
                             /\ log[i + 1].tag = "RowDescription"
                             /\ log[i + 2].tag = "DataRow"
                             /\ log[i + 3].tag = "CommandComplete"
                             /\ log[i + 4].tag = "ReadyForQuery"
           /\ log[i].tag = "Terminate"
                 => /\ i = Len(log)
                    /\ session.phase = "done"
           /\ log[i].tag \in {"Io", "InvalidMessage"}
                 => /\ i = Len(log)
                    /\ session.phase = "error"

====
